---------------------------- MODULE Spec2Model ----------------------------
(***************************************************************************)
(* Hydra engine: the head store and push path, the bus, the per-subscriber *)
(* consumer (priority-segregated dirty set, wake signal, rate limiter,     *)
(* sender loop), the watch stream and the lifetime garbage collector.      *)
(*                                                                         *)
(* Optional values (Go pointers) are sequences: <<>> is nil, <<v>> is a    *)
(* pointer to v.  Go maps are functions whose DOMAIN is the set of keys.   *)
(***************************************************************************)
EXTENDS Integers, Sequences, FiniteSets, TLC

(***************************************************************************)
(* Bounds of the model                                                     *)
(***************************************************************************)
MaxTime == 2
MaxPushes == 2
MaxMarks == 2

(***************************************************************************)
(* Program constants                                                       *)
(***************************************************************************)
PriorityUnspecified == 0
PriorityRoutine == 1
PriorityImmediate == 2
PriorityFlash == 3

Priorities == PriorityUnspecified..PriorityFlash

EntityChangeInvalid == "invalid"
EntityChangeUpdated == "updated"
EntityChangeExpired == "expired"
EntityChangeUnobserved == "unobserved"

ChangeKinds == {EntityChangeUpdated, EntityChangeExpired}

\* timestamps: a nil *Timestamp, one whose IsValid() is false, or an instant
NoTs == -1
BadTs == -2
Instants == 0..MaxTime

IsValid(ts) == ts >= 0

Ids == {"a", "b"}
Consumers == {"c1", "c2"}
Producers == {"t1", "t2"}
Pushers == {"p1", "p2"}
Gc == "gc"
Callers == Producers \cup Pushers \cup {Gc}

(***************************************************************************)
(* Entities                                                                *)
(***************************************************************************)
Lifetime(from, until) == [from |-> from, until |-> until]

Entity(id, lifetime, priority) ==
    [id |-> id, label |-> <<>>, lifetime |-> lifetime, priority |-> priority,
     present |-> {}]

\* an expiry test that never finds an entity expired
isExpired_Never(entity, t) == FALSE


\* isExpired(entity) at wall-clock time t
isExpired(entity, t) ==
    IF entity.lifetime = <<>> \/ entity.lifetime[1].until = NoTs THEN FALSE
    ELSE IF ~IsValid(entity.lifetime[1].until) THEN FALSE
    ELSE t > entity.lifetime[1].until

(***************************************************************************)
(* Filter matcher                                                          *)
(***************************************************************************)
LeafFilter(id, label, component) ==
    [or |-> <<>>, not |-> <<>>, id |-> id, label |-> label,
     component |-> component]

entityHasComponent(entity, field) ==
    CASE field = 2 -> entity.label # <<>>
      [] field = 4 -> entity.lifetime # <<>>
      [] field = 5 -> entity.priority # <<>>
      [] field \in {3, 11, 12, 15, 16, 17, 20, 21, 22, 23, 31} ->
            field \in entity.present
      [] OTHER -> FALSE

\* a component test satisfied by any one of the listed components
matchesComponentList_Any(entity, components) ==
    IF Len(components) = 0 THEN TRUE
    ELSE \E i \in 1..Len(components) : entityHasComponent(entity, components[i])


matchesComponentList(entity, components) ==
    IF Len(components) = 0 THEN TRUE
    ELSE \A i \in 1..Len(components) : entityHasComponent(entity, components[i])

\* a matcher that takes an empty or list for a list no branch of which
\* matches
RECURSIVE matchesEntityFilter_OrAlways(_, _)
matchesEntityFilter_OrAlways(entity, filter) ==
    IF filter = <<>> THEN TRUE
    ELSE LET f == filter[1] IN
      IF f.not = <<>>
      THEN \E i \in 1..Len(f.or) :
              matchesEntityFilter_OrAlways(entity, <<f.or[i]>>)
      ELSE ~matchesEntityFilter_OrAlways(entity, f.not)

RECURSIVE matchesEntityFilter(_, _)
matchesEntityFilter(entity, filter) ==
    IF filter = <<>> THEN TRUE
    ELSE LET f == filter[1] IN
      IF Len(f.or) > 0
      THEN \E i \in 1..Len(f.or) : matchesEntityFilter(entity, <<f.or[i]>>)
      ELSE IF f.not # <<>> THEN ~matchesEntityFilter(entity, f.not)
      ELSE /\ ~(f.id # <<>> /\ entity.id # f.id[1])
           /\ (f.label # <<>> =>
                 (entity.label # <<>> /\ entity.label[1] = f.label[1]))
           /\ matchesComponentList(entity, f.component)

(***************************************************************************)
(* Policy                                                                  *)
(***************************************************************************)
CanRead(entity) == TRUE
AuthorizeWrite(entity) == TRUE

(***************************************************************************)
(* Consumer: configuration and the dirty set                               *)
(***************************************************************************)
WatchLimiter(rate, minPriority) ==
    [MaxMessagesPerSecond |-> rate, MinPriority |-> minPriority]

ConsumerCfg(ability, limiter, filter) ==
    [ability |-> ability, limiter |-> limiter, filter |-> filter]

\* a constructor that never creates the ticker
hasRateLimiter_Never(cfg) == FALSE


\* NewConsumer: a ticker exists iff the limiter carries a positive rate
hasRateLimiter(cfg) ==
    /\ cfg.limiter # <<>>
    /\ cfg.limiter[1].MaxMessagesPerSecond # <<>>
    /\ cfg.limiter[1].MaxMessagesPerSecond[1] > 0

minPriority(cfg) ==
    IF cfg.limiter # <<>> /\ cfg.limiter[1].MinPriority # <<>>
    THEN cfg.limiter[1].MinPriority[1]
    ELSE PriorityRoutine

EmptyMap == [i \in {} |-> EntityChangeUpdated]
EmptyDirty == [p \in Priorities |-> EmptyMap]

MapDelete(m, k) == [x \in DOMAIN m \ {k} |-> m[x]]
MapPut(m, k, v) == [x \in DOMAIN m \cup {k} |-> IF x = k THEN v ELSE m[x]]

\* markDirty without the reseat loop
markDirtySet_NoReseat(d, entityID, priority, change) ==
    [d EXCEPT ![priority] = MapPut(d[priority], entityID, change)]

\* markDirty that keeps the kind already pending for the ID
markDirtySet_KeepOld(d, entityID, priority, change) ==
    LET old == {d[p][entityID] : p \in {q \in Priorities : entityID \in DOMAIN d[q]}}
        kept == IF old = {} THEN change ELSE CHOOSE k \in old : TRUE
    IN [p \in Priorities |->
          IF p = priority THEN MapPut(d[p], entityID, kept)
          ELSE MapDelete(d[p], entityID)]

\* markDirty, the part under c.mu: reseat the ID into the slot of `priority`
markDirtySet(d, entityID, priority, change) ==
    [p \in Priorities |->
       IF p = priority THEN MapPut(d[p], entityID, change)
       ELSE MapDelete(d[p], entityID)]

\* markDirty's first test, made before the lock is taken
markDirtyAccepts_All(cfg, priority) == TRUE

markDirtyAccepts(cfg, priority) == ~(priority < minPriority(cfg))

\* popNext scanning from the lowest slot upwards
popNext_LowFirst(d, minPri) ==
    LET ok == {p \in Priorities : p >= minPri /\ DOMAIN d[p] # {}}
    IN IF ok = {} THEN -1 ELSE CHOOSE p \in ok : \A q \in ok : q >= p

\* popNext: the slot it drains, -1 when every slot at or above minPri is empty
popNext(d, minPri) ==
    LET ok == {p \in Priorities : p >= minPri /\ DOMAIN d[p] # {}}
    IN IF ok = {} THEN -1 ELSE CHOOSE p \in ok : \A q \in ok : q <= p

(***************************************************************************)
(* Bus                                                                     *)
(***************************************************************************)
\* a bus that falls back to no priority at all
busPriority_Unspecified(entity) ==
    IF entity # <<>> /\ entity[1].priority # <<>> THEN entity[1].priority[1]
    ELSE PriorityUnspecified

\* Bus.Dirty: the priority used for the markDirty calls
busPriority(entity) ==
    IF entity # <<>> /\ entity[1].priority # <<>> THEN entity[1].priority[1]
    ELSE PriorityRoutine


(***************************************************************************)
(* State                                                                   *)
(***************************************************************************)
VARIABLES
    head,       \* WorldServer.head: map from entity ID to entity
    store,      \* the timeline: every change handed to Store.Push, in order
    frozen,     \* WorldServer.frozen
    frozenAt,   \* WorldServer.frozenAt
    deny,       \* the IDs the policy engine refuses to have written
    observed,   \* WorldServer.observed: the streams whose geometry is held
    obsLog,     \* the "watch added" / "watch removed" events published
    geom,       \* per consumer: the geometry of its request's geo filter
    resp,       \* per pusher: what its last Push call returned
    reply,      \* what the last GetEntity / ListEntities call returned
    now,        \* wall-clock time
    lock,       \* holder of the write side of WorldServer.l, or "free"
    registered, \* the bus's set of consumers
    cfg,        \* per consumer: ability, limiter, filter
    dirty,      \* per consumer: dirty[priority] is a map entityID -> change
    signal,     \* per consumer: tokens in the wake channel
    limiterC,   \* per consumer: ticks waiting in rateLimiter.C
    nticks,     \* history, per consumer: ticks stored in rateLimiter.C so far
    pc,         \* per consumer: position of its stream / sender loop
    held,       \* per consumer: locals of the sender loop
    snap,       \* per consumer: the snapshot still to be sent
    stream,     \* per consumer: events handed successfully to send
    broken,     \* per consumer: the transport has failed
    ctxDone,    \* per consumer: the context is cancelled
    result,     \* per consumer: what the loop returned
    faulty,     \* whether the environment cancels contexts and fails sends
    cpc,        \* per caller (test producer, pusher, gc): position
    call,       \* per caller: the Dirty / markDirty call in progress
    req,        \* per pusher: changes of the request not yet applied
    cur,        \* per pusher: the change being applied (normalised)
    gcNow,      \* gc: its local `now`
    gcTodo,     \* gc: keys of the range loop not yet visited
    published,  \* events handed to Bus.publish by gc, in order
    lastMark,   \* history, per consumer and ID: the accepted markDirty calls
                \* since the ID was last popped (how many, and the last one)
    openedAt,   \* history, per consumer: length of the timeline when the
                \* watch read its snapshot (-1 before)
    npush,      \* number of changes accepted by Push calls so far
    nmark,      \* number of direct markDirty calls made so far
    connectors, \* controller: map entity ID -> the cancel function stored for
                \* it, named by the connector it cancels
    conns,      \* controller: the connectors started so far, each with its
                \* entity ID, context and position in runConnector
    upd,        \* controller: the handleUpdate call in progress
    parentDone, \* controller: the context handed to Run1to1 is cancelled
    obs         \* the Observe stream: position of its handler, the part of
                \* the published events its channel has delivered (from the
                \* one after `from` up to `pos`), states handed to send

vars == <<head, store, frozen, frozenAt, deny, observed, obsLog, geom, resp,
          reply, now, lock, registered, cfg, dirty,
          signal, limiterC, nticks, pc, held, snap, stream, broken, ctxDone, result,
          faulty, cpc, call, req, cur, gcNow, gcTodo, published, lastMark,
          openedAt, npush, nmark, connectors, conns, upd, parentDone, obs>>

auxVars == <<deny, observed, obsLog, geom, resp, reply, obs>>
ctlVars == <<connectors, conns, upd, parentDone>>
worldVars == <<head, store, frozen, frozenAt, auxVars, lock>>
gcVars == <<gcNow, gcTodo, published>>
pushVars == <<req, cur, npush>>
callVars == <<cpc, call>>
consumerVars == <<cfg, dirty, signal, limiterC, nticks, pc, held, snap, stream,
                  broken, ctxDone, result, faulty, lastMark, openedAt>>

SignalCap == 1
TickerCap == 1

NoCall == [entityID |-> "", priority |-> 0, change |-> EntityChangeInvalid,
           todo |-> {}, sig |-> {}]
NoHeld == [entityID |-> "", change |-> EntityChangeInvalid, priority |-> 0,
           entity |-> <<>>]
NoMark == [n |-> 0, priority |-> 0, change |-> EntityChangeInvalid]
\* the Observe handler has not been called
NoObs == [pc |-> "none", from |-> 0, pos |-> 0, out |-> <<>>]

NoReply == [op |-> "", id |-> "", filter |-> <<>>, code |-> "",
            entities |-> <<>>]
NoResp == [status |-> "", batch |-> <<>>, base |-> 0, ids |-> <<>>]
NoCfg == [ability |-> FALSE, limiter |-> <<>>, filter |-> <<>>]

ChangeEvent(entity, t) == [Entity |-> entity, T |-> t]

\* an entry of `stream`: the event, and how the loop came to send it
Sent(ev, path, id, priority) ==
    [ev |-> ev, path |-> path, id |-> id, priority |-> priority]

(***************************************************************************)
(* Consumer.markDirty, as called by Bus.Dirty for each consumer in turn,   *)
(* or directly                                                             *)
(***************************************************************************)
\* the non-blocking send on the wake channel that blocks when it is full
signalSend_Blocking(n) == [ok |-> n < SignalCap, n |-> n + 1]

\* a markDirty whose wake-up never puts a token into the channel
signalSend_Dropped(n) == [ok |-> TRUE, n |-> n]


\* select { case c.signal <- struct{}{}: default: }
signalSend(n) == [ok |-> TRUE, n |-> IF n < SignalCap THEN n + 1 ELSE n]

StartCall(k, id, priority, change, todo) ==
    /\ call' = [call EXCEPT ![k] = [entityID |-> id, priority |-> priority,
                                    change |-> change, todo |-> todo,
                                    sig |-> {}]]
    /\ cpc' = [cpc EXCEPT ![k] = "dirty"]

CallDone(k) == cpc[k] = "dirty" /\ call[k].todo = {} /\ call[k].sig = {}

\* markDirty up to c.mu.Unlock()
DirtyMark(k) ==
    /\ cpc[k] = "dirty"
    /\ call[k].sig = {}
    /\ \E c \in call[k].todo :
         IF markDirtyAccepts(cfg[c], call[k].priority)
         THEN /\ dirty' = [dirty EXCEPT ![c] =
                   markDirtySet(dirty[c], call[k].entityID, call[k].priority,
                                call[k].change)]
              /\ call' = [call EXCEPT ![k].todo = @ \ {c}, ![k].sig = {c}]
              /\ lastMark' = [lastMark EXCEPT ![c][call[k].entityID] =
                   [n |-> @.n + 1, priority |-> call[k].priority,
                    change |-> call[k].change]]
         ELSE /\ call' = [call EXCEPT ![k].todo = @ \ {c}]
              /\ UNCHANGED <<dirty, lastMark>>
    /\ UNCHANGED <<worldVars, gcVars, pushVars, now, registered, cfg, signal,
                   limiterC, nticks, pc, held, snap, stream, broken, ctxDone, result,
                   cpc, nmark, faulty, ctlVars, openedAt>>

\* markDirty's wake
DirtySignal(k) ==
    /\ cpc[k] = "dirty"
    /\ \E c \in call[k].sig :
         /\ signalSend(signal[c]).ok
         /\ signal' = [signal EXCEPT ![c] = signalSend(signal[c]).n]
    /\ call' = [call EXCEPT ![k].sig = {}]
    /\ UNCHANGED <<worldVars, gcVars, pushVars, now, registered, cfg, dirty,
                   limiterC, nticks, pc, held, snap, stream, broken, ctxDone, result,
                   cpc, nmark, faulty, ctlVars, lastMark, openedAt>>

\* a test goroutine calls c.markDirty(id, priority, change)
TestMarkDirty(k, c, id, priority, change) ==
    /\ cpc[k] = "idle"
    /\ pc[c] # "none"
    /\ nmark < MaxMarks
    /\ nmark' = nmark + 1
    /\ StartCall(k, id, priority, change, {c})
    /\ UNCHANGED <<worldVars, gcVars, pushVars, now, registered,
                   consumerVars, ctlVars>>

\* the entities a test hands to Bus.Dirty for an ID: none, one without a
\* priority, one with a priority
DirtyEntities(id) ==
    {<<>>, <<Entity(id, <<>>, <<>>)>>,
     <<Entity(id, <<>>, <<PriorityImmediate>>)>>}

\* a bus that notifies one of its consumers only
BusDirty_OneOnly(k, id, entity, change) ==
    /\ cpc[k] = "idle"
    /\ nmark < MaxMarks
    /\ nmark' = nmark + 1
    /\ cur' = [cur EXCEPT ![k] = entity]
    /\ StartCall(k, id, busPriority(entity), change,
                 IF registered = {} THEN {}
                 ELSE {CHOOSE c \in registered : TRUE})
    /\ UNCHANGED <<worldVars, gcVars, req, npush, now, registered,
                   consumerVars, ctlVars>>

\* a goroutine calls bus.Dirty(id, entity, change): every consumer that is
\* registered now will be marked
BusDirty(k, id, entity, change) ==
    /\ cpc[k] = "idle"
    /\ nmark < MaxMarks
    /\ nmark' = nmark + 1
    /\ cur' = [cur EXCEPT ![k] = entity]
    /\ StartCall(k, id, busPriority(entity), change, registered)
    /\ UNCHANGED <<worldVars, gcVars, req, npush, now, registered,
                   consumerVars, ctlVars>>

\* bus.Register(c)
BusRegister(c) ==
    /\ c \notin registered
    /\ registered' = registered \cup {c}
    /\ UNCHANGED <<worldVars, gcVars, pushVars, callVars, now, consumerVars, ctlVars,
                   nmark>>

\* bus.Unregister(c), whatever the consumer's sender loop is doing
BusUnregister(c) ==
    /\ c \in registered
    /\ registered' = registered \ {c}
    /\ UNCHANGED <<worldVars, gcVars, pushVars, callVars, now, consumerVars, ctlVars,
                   nmark>>

\* go c.SenderLoop(ctx, send)
LoopStart(c) ==
    /\ pc[c] = "none"
    /\ pc' = [pc EXCEPT ![c] = "top"]
    /\ UNCHANGED <<worldVars, gcVars, pushVars, callVars, now, registered,
                   cfg, dirty, signal, limiterC, nticks, held, snap, stream, broken,
                   ctxDone, result, nmark, faulty, ctlVars, lastMark, openedAt>>

TestReturn(k) ==
    /\ CallDone(k)
    /\ cpc' = [cpc EXCEPT ![k] = "idle"]
    /\ call' = [call EXCEPT ![k] = NoCall]
    /\ UNCHANGED <<worldVars, gcVars, pushVars, now, registered, consumerVars, ctlVars,
                   nmark>>

(***************************************************************************)
(* Consumer.SenderLoop                                                     *)
(***************************************************************************)
\* what a send can return: nil (TRUE) or an error (FALSE); a transport that has
\* failed keeps failing
SendOutcomes(c) ==
    IF broken[c] THEN {FALSE} ELSE IF faulty THEN BOOLEAN ELSE {TRUE}

\* the loop returns: the stream's deferred teardown unregisters the consumer
\* and, when the request carried a geometry, goes on to the registry
Finish(c, why) ==
    /\ pc' = [pc EXCEPT ![c] = IF geom[c] # <<>> THEN "teardown" ELSE "done"]
    /\ result' = [result EXCEPT ![c] = why]
    /\ registered' = registered \ {c}

\* a loop that does not look at ctx.Err() before popNext
SenderPop_NoCtxCheck(c) ==
    /\ pc[c] = "top"
    /\ LET p == popNext(dirty[c], minPriority(cfg[c])) IN
       IF p = -1
       THEN /\ pc' = [pc EXCEPT ![c] = "wait"]
            /\ UNCHANGED <<dirty, held, result, registered, lastMark>>
       ELSE \E id \in DOMAIN dirty[c][p] :
            /\ dirty' = [dirty EXCEPT ![c][p] = MapDelete(@, id)]
            /\ held' = [held EXCEPT ![c] =
                  [entityID |-> id, change |-> dirty[c][p][id],
                   priority |-> p, entity |-> <<>>]]
            /\ lastMark' = [lastMark EXCEPT ![c][id] = NoMark]
            /\ pc' = [pc EXCEPT ![c] = "get"]
            /\ UNCHANGED <<result, registered>>
    /\ UNCHANGED <<worldVars, gcVars, pushVars, callVars, now, cfg, signal,
                   limiterC, nticks, snap, stream, broken, ctxDone, nmark,
                   faulty, ctlVars, openedAt>>


\* ctx.Err() check and popNext
SenderPop(c) ==
    /\ pc[c] = "top"
    /\ IF ctxDone[c]
       THEN /\ Finish(c, "cancelled")
            /\ UNCHANGED <<dirty, held, lastMark>>
       ELSE LET p == popNext(dirty[c], minPriority(cfg[c])) IN
            IF p = -1
            THEN /\ pc' = [pc EXCEPT ![c] = "wait"]
                 /\ UNCHANGED <<dirty, held, result, registered, lastMark>>
            ELSE \E id \in DOMAIN dirty[c][p] :
                 /\ dirty' = [dirty EXCEPT ![c][p] = MapDelete(@, id)]
                 /\ held' = [held EXCEPT ![c] =
                       [entityID |-> id, change |-> dirty[c][p][id],
                        priority |-> p, entity |-> <<>>]]
                 /\ lastMark' = [lastMark EXCEPT ![c][id] = NoMark]
                 /\ pc' = [pc EXCEPT ![c] = "get"]
                 /\ UNCHANGED <<result, registered>>
    /\ UNCHANGED <<worldVars, gcVars, pushVars, callVars, now, cfg, signal,
                   limiterC, nticks, snap, stream, broken, ctxDone, nmark, faulty, ctlVars,
                   openedAt>>

\* select { case <-ctx.Done(): ... case <-c.signal: continue }
SenderWait(c) ==
    /\ pc[c] = "wait"
    /\ \/ /\ ctxDone[c]
          /\ Finish(c, "cancelled")
          /\ UNCHANGED signal
       \/ /\ signal[c] > 0
          /\ signal' = [signal EXCEPT ![c] = @ - 1]
          /\ pc' = [pc EXCEPT ![c] = "top"]
          /\ UNCHANGED <<result, registered>>
    /\ UNCHANGED <<worldVars, gcVars, pushVars, callVars, now, cfg, dirty,
                   limiterC, nticks, held, snap, stream, broken, ctxDone, nmark, faulty, ctlVars, lastMark, openedAt>>

\* a lookup that never finds the entity
GetHead_Missing(id) == <<>>


\* WorldServer.GetHead, under the read lock
GetHead(id) == IF id \in DOMAIN head THEN <<head[id]>> ELSE <<>>

SenderGet(c) ==
    /\ pc[c] = "get"
    /\ lock = "free"
    /\ held' = [held EXCEPT ![c].entity = GetHead(held[c].entityID)]
    /\ pc' = [pc EXCEPT ![c] = "route"]
    /\ UNCHANGED <<worldVars, gcVars, pushVars, callVars, now, registered,
                   cfg, dirty, signal, limiterC, nticks, snap, stream, broken,
                   ctxDone, result, nmark, faulty, ctlVars, lastMark, openedAt>>

\* a flash branch that sends only when the entity is in the head
flashSends_PresentOnly(cf, entity, change) == entity # <<>>


\* the flash branch: whether the entry is sent
flashSends(cf, entity, change) ==
    entity # <<>> \/ change = EntityChangeExpired

\* a normal path without the filter test
filterDrops_Never(cf, entity) == FALSE


\* the filter test of the normal path, made only for a present entity
filterDrops(cf, entity) ==
    entity # <<>> /\ cf.filter # <<>>
    /\ ~matchesEntityFilter(entity[1], cf.filter)

\* the limiter wait applied to flash entries too
flashNext_Limited(cf) == IF hasRateLimiter(cf) THEN "limit" ELSE "send"

\* where a flash entry that is sent goes next: straight to send
flashNext(cf) == "send"

\* the read-policy test, the flash branch, the expiry override, the filter
SenderRoute(c) ==
    LET h == held[c]
        e == h.entity
        change == IF e = <<>> \/ isExpired(e[1], now)
                  THEN EntityChangeExpired ELSE h.change
        next == IF e # <<>> /\ cfg[c].ability /\ ~CanRead(e[1]) THEN "top"
                ELSE IF h.priority = PriorityFlash
                THEN IF flashSends(cfg[c], e, h.change) THEN flashNext(cfg[c])
                     ELSE "top"
                ELSE IF filterDrops(cfg[c], e) THEN "top"
                ELSE IF hasRateLimiter(cfg[c]) THEN "limit"
                ELSE "send"
    IN
    /\ pc[c] = "route"
    /\ pc' = [pc EXCEPT ![c] = next]
    /\ held' = [held EXCEPT ![c] =
          IF next = "top" THEN NoHeld
          ELSE IF h.priority = PriorityFlash THEN h
          ELSE [h EXCEPT !.change = change]]
    /\ UNCHANGED <<worldVars, gcVars, pushVars, callVars, now, registered,
                   cfg, dirty, signal, limiterC, nticks, snap, stream, broken,
                   ctxDone, result, nmark, faulty, ctlVars, lastMark, openedAt>>

\* select { case <-ctx.Done(): ... case <-c.rateLimiter.C: }
SenderLimit(c) ==
    /\ pc[c] = "limit"
    /\ \/ /\ ctxDone[c]
          /\ Finish(c, "cancelled")
          /\ held' = [held EXCEPT ![c] = NoHeld]
          /\ UNCHANGED limiterC
       \/ /\ limiterC[c] > 0
          /\ limiterC' = [limiterC EXCEPT ![c] = @ - 1]
          /\ pc' = [pc EXCEPT ![c] = "send"]
          /\ UNCHANGED <<held, result, registered>>
    /\ UNCHANGED <<worldVars, gcVars, pushVars, callVars, now, cfg, dirty,
                   signal, nticks, snap, stream, broken, ctxDone, nmark,
                   faulty, ctlVars, lastMark, openedAt>>

\* a loop that goes on to the next iteration when send returns an error
SenderSend_IgnoreError(c) ==
    /\ pc[c] = "send"
    /\ \E ok \in SendOutcomes(c) :
         /\ stream' = [stream EXCEPT ![c] =
               IF ok THEN Append(@,
                   Sent(ChangeEvent(held[c].entity, held[c].change),
                        IF held[c].priority = PriorityFlash THEN "flash"
                        ELSE "normal",
                        held[c].entityID, held[c].priority))
               ELSE @]
         /\ broken' = [broken EXCEPT ![c] = ~ok]
    /\ pc' = [pc EXCEPT ![c] = "top"]
    /\ held' = [held EXCEPT ![c] = NoHeld]
    /\ UNCHANGED <<worldVars, gcVars, pushVars, callVars, now, cfg, dirty,
                   signal, limiterC, nticks, snap, ctxDone, nmark, faulty, ctlVars,
                   lastMark, openedAt, result, registered>>


\* send(&pb.EntityChangeEvent{Entity: entity, T: change})
SenderSend(c) ==
    /\ pc[c] = "send"
    /\ \E ok \in SendOutcomes(c) :
         IF ok
         THEN /\ stream' = [stream EXCEPT ![c] = Append(@,
                   Sent(ChangeEvent(held[c].entity, held[c].change),
                        IF held[c].priority = PriorityFlash THEN "flash"
                        ELSE "normal",
                        held[c].entityID, held[c].priority))]
              /\ pc' = [pc EXCEPT ![c] = "top"]
              /\ UNCHANGED <<broken, result, registered>>
         ELSE /\ broken' = [broken EXCEPT ![c] = TRUE]
              /\ Finish(c, "senderr")
              /\ UNCHANGED stream
    /\ held' = [held EXCEPT ![c] = NoHeld]
    /\ UNCHANGED <<worldVars, gcVars, pushVars, callVars, now, cfg, dirty,
                   signal, limiterC, nticks, snap, ctxDone, nmark, faulty, ctlVars, lastMark, openedAt>>

\* the ticker of NewConsumer fires; a tick finding the channel full is dropped
LimiterTick(c) ==
    /\ pc[c] # "none"
    /\ hasRateLimiter(cfg[c])
    /\ limiterC[c] < TickerCap
    /\ limiterC' = [limiterC EXCEPT ![c] = @ + 1]
    /\ nticks' = [nticks EXCEPT ![c] = @ + 1]
    /\ UNCHANGED <<worldVars, gcVars, pushVars, callVars, now, registered,
                   cfg, dirty, signal, pc, held, snap, stream, broken,
                   ctxDone, result, nmark, faulty, ctlVars, lastMark, openedAt>>

\* the caller cancels the stream's context
Cancel(c) ==
    /\ faulty
    /\ pc[c] \notin {"none", "done"}
    /\ ~ctxDone[c]
    /\ ctxDone' = [ctxDone EXCEPT ![c] = TRUE]
    /\ UNCHANGED <<worldVars, gcVars, pushVars, callVars, now, registered,
                   cfg, dirty, signal, limiterC, nticks, pc, held, snap, stream,
                   broken, result, nmark, faulty, ctlVars, lastMark, openedAt>>

\* wall-clock time advances
Tick ==
    /\ now < MaxTime
    /\ now' = now + 1
    /\ UNCHANGED <<worldVars, gcVars, pushVars, callVars, registered,
                   consumerVars, ctlVars, nmark>>

(***************************************************************************)
(* WorldServer.WatchEntities                                               *)
(***************************************************************************)
\* the limiters and filters a watch request may carry
WatchLimiters == {<<>>, <<WatchLimiter(<<1>>, <<>>)>>}
WatchFilters == {<<>>, <<LeafFilter(<<"a">>, <<>>, <<>>)>>}

\* IDs in ascending order (strings.Compare)
IdLess(x, y) == <<x, y>> \in {<<"a", "b">>, <<"a", "c">>, <<"b", "c">>}

RECURSIVE SortedById(_)
SortedById(S) ==
    IF S = {} THEN <<>>
    ELSE LET m == CHOOSE x \in S : \A y \in S : ~IdLess(y.id, x.id)
         IN <<m>> \o SortedById(S \ {m})

matchesListEntitiesRequest(entity, filter) == matchesEntityFilter(entity, filter)

\* a handler that creates the subscriber but does not put it on the bus
\* before it reads the head
WatchOpen_Unregistered(c, limiter, filter) ==
    /\ pc[c] = "none"
    /\ cfg' = [cfg EXCEPT ![c] = ConsumerCfg(TRUE, limiter, filter)]
    /\ pc' = [pc EXCEPT ![c] = IF geom[c] # <<>> THEN "observe" ELSE "sentinel"]
    /\ UNCHANGED <<worldVars, gcVars, pushVars, callVars, now, dirty, signal,
                   limiterC, nticks, held, snap, stream, broken, ctxDone, result,
                   nmark, faulty, ctlVars, lastMark, openedAt, registered>>


\* the request arrives: the subscriber is created and registered with the bus
WatchOpen(c, limiter, filter) ==
    /\ pc[c] = "none"
    /\ cfg' = [cfg EXCEPT ![c] = ConsumerCfg(TRUE, limiter, filter)]
    /\ registered' = registered \cup {c}
    /\ pc' = [pc EXCEPT ![c] = IF geom[c] # <<>> THEN "observe" ELSE "sentinel"]
    /\ UNCHANGED <<worldVars, gcVars, pushVars, callVars, now, dirty, signal,
                   limiterC, nticks, held, snap, stream, broken, ctxDone, result,
                   nmark, faulty, ctlVars, lastMark, openedAt>>

\* the geometries a request's geo filter may carry: none, one whose WKB
\* decodes, one whose WKB does not
Geometries == {<<>>, <<"wkb">>, <<"bad">>}

\* wkb.Unmarshal succeeds
decodes(g) == g = "wkb"

\* the bus event that tells observers the registry has changed
ObserverEvent(trace, c) == [trace |-> trace, observer |-> TRUE, by |-> c]

\* addObservedGeom, then bus.publish("watch added")
WatchObserve(c) ==
    /\ pc[c] = "observe"
    /\ IF decodes(geom[c][1])
       THEN /\ lock = "free"
            /\ observed' = observed \cup {c}
       ELSE UNCHANGED observed
    /\ obsLog' = Append(obsLog, ObserverEvent("watch added", c))
    /\ pc' = [pc EXCEPT ![c] = "sentinel"]
    /\ UNCHANGED <<head, store, frozen, frozenAt, deny, obs, geom, resp, reply, lock,
                   gcVars, pushVars, callVars, now, registered, cfg, dirty,
                   signal, limiterC, nticks, held, snap, stream, broken, ctxDone,
                   result, faulty, ctlVars, lastMark, openedAt, nmark>>

\* a teardown that leaves the geometry in the registry
WatchTeardown_KeepGeom(c) ==
    /\ pc[c] = "teardown"
    /\ lock = "free"
    /\ obsLog' = Append(obsLog, ObserverEvent("watch removed", c))
    /\ pc' = [pc EXCEPT ![c] = "done"]
    /\ UNCHANGED <<head, store, frozen, frozenAt, deny, obs, observed, geom, resp,
                   reply, lock, gcVars, pushVars, callVars, now, registered,
                   cfg, dirty, signal, limiterC, nticks, held, snap, stream, broken,
                   ctxDone, result, faulty, ctlVars, lastMark, openedAt, nmark>>

\* the rest of the deferred teardown, after the consumer has been taken off
\* the bus: removeObservedGeom, then bus.publish("watch removed")
WatchTeardown(c) ==
    /\ pc[c] = "teardown"
    /\ lock = "free"
    /\ observed' = observed \ {c}
    /\ obsLog' = Append(obsLog, ObserverEvent("watch removed", c))
    /\ pc' = [pc EXCEPT ![c] = "done"]
    /\ UNCHANGED <<head, store, frozen, frozenAt, deny, obs, geom, resp, reply, lock,
                   gcVars, pushVars, callVars, now, registered, cfg, dirty,
                   signal, limiterC, nticks, held, snap, stream, broken, ctxDone,
                   result, faulty, ctlVars, lastMark, openedAt, nmark>>

(***************************************************************************)
(* WorldServer.Observe                                                     *)
(***************************************************************************)
MaxObserved == 5

\* pb.ObserverState: the collection the handler has built from s.observed
ObserverState(geos) == [geo |-> geos]

\* f(): the geometries of s.observed are collected under the read lock,
\* encoded and handed to stream.Send
observeSend(o) == [o EXCEPT !.out = Append(@, ObserverState(observed))]

\* the request arrives: the handler's observer is put on the bus; what is
\* published from now on reaches its channel
ObserveOpen ==
    /\ obs.pc = "none"
    /\ obs' = [obs EXCEPT !.pc = "first", !.from = Len(obsLog),
                          !.pos = Len(obsLog)]
    /\ UNCHANGED <<head, store, frozen, frozenAt, deny, observed, obsLog,
                   geom, resp, reply, lock, gcVars, pushVars, callVars, now,
                   registered, consumerVars, ctlVars, nmark>>

\* the first f(), before the handler starts to receive
ObserveFirst ==
    /\ obs.pc = "first"
    /\ lock = "free"
    /\ obs' = [observeSend(obs) EXCEPT !.pc = "wait"]
    /\ UNCHANGED <<head, store, frozen, frozenAt, deny, observed, obsLog,
                   geom, resp, reply, lock, gcVars, pushVars, callVars, now,
                   registered, consumerVars, ctlVars, nmark>>

\* a handler that calls f() for every event of its channel
ObserveRecv_Any ==
    /\ obs.pc = "wait"
    /\ obs.pos < Len(obsLog)
    /\ obs.pos < MaxObserved
    /\ obs' = [obs EXCEPT !.pos = @ + 1, !.pc = "build"]
    /\ UNCHANGED <<head, store, frozen, frozenAt, deny, observed, obsLog,
                   geom, resp, reply, lock, gcVars, pushVars, callVars, now,
                   registered, consumerVars, ctlVars, nmark>>

\* `case ev, ok := <-this.C`: the next event published since the observer
\* was put on the bus is received; an observer event leads to f()
ObserveRecv ==
    /\ obs.pc = "wait"
    /\ obs.pos < Len(obsLog)
    /\ obs.pos < MaxObserved
    /\ obs' = [obs EXCEPT !.pos = @ + 1,
                          !.pc = IF obsLog[obs.pos + 1].observer
                                 THEN "build" ELSE "wait"]
    /\ UNCHANGED <<head, store, frozen, frozenAt, deny, observed, obsLog,
                   geom, resp, reply, lock, gcVars, pushVars, callVars, now,
                   registered, consumerVars, ctlVars, nmark>>

\* f() for the event received
ObserveBuild ==
    /\ obs.pc = "build"
    /\ lock = "free"
    /\ obs' = [observeSend(obs) EXCEPT !.pc = "wait"]
    /\ UNCHANGED <<head, store, frozen, frozenAt, deny, observed, obsLog,
                   geom, resp, reply, lock, gcVars, pushVars, callVars, now,
                   registered, consumerVars, ctlVars, nmark>>

\* `case <-ctx.Done()`: the handler returns and its observer is taken off
\* the bus
ObserveCancel ==
    /\ obs.pc = "wait"
    /\ obs' = [obs EXCEPT !.pc = "done"]
    /\ UNCHANGED <<head, store, frozen, frozenAt, deny, observed, obsLog,
                   geom, resp, reply, lock, gcVars, pushVars, callVars, now,
                   registered, consumerVars, ctlVars, nmark>>

\* stream.Send of the opening event; its error is discarded
WatchSentinel(c) ==
    /\ pc[c] = "sentinel"
    /\ \E ok \in SendOutcomes(c) :
         IF ok
         THEN /\ stream' = [stream EXCEPT ![c] = Append(@,
                   Sent(ChangeEvent(<<>>, EntityChangeInvalid), "sentinel",
                        "", 0))]
              /\ UNCHANGED broken
         ELSE /\ broken' = [broken EXCEPT ![c] = TRUE]
              /\ UNCHANGED stream
    /\ pc' = [pc EXCEPT ![c] = "snapshot"]
    /\ UNCHANGED <<worldVars, gcVars, pushVars, callVars, now, registered,
                   cfg, dirty, signal, limiterC, nticks, held, snap, ctxDone, result,
                   nmark, faulty, ctlVars, lastMark, openedAt>>

\* a snapshot that sends the head in the order the map yields it, here the
\* greatest ID first
snapshotOf_Unsorted(h, filter) ==
    LET S == {e \in {h[k] : k \in DOMAIN h} :
                 matchesListEntitiesRequest(e, filter)}
    IN IF S = {} THEN <<>>
       ELSE LET m == CHOOSE x \in S : \A y \in S : ~IdLess(x.id, y.id)
            IN <<m>> \o SortedById(S \ {m})

\* the entities the snapshot loop sends: the head sorted by ID, those that
\* match the request
snapshotOf(h, filter) ==
    SelectSeq(SortedById({h[k] : k \in DOMAIN h}),
              LAMBDA e : matchesListEntitiesRequest(e, filter))

\* the head is copied under the read lock, sorted by ID and matched
WatchSnapshot(c) ==
    /\ pc[c] = "snapshot"
    /\ lock = "free"
    /\ snap' = [snap EXCEPT ![c] = snapshotOf(head, cfg[c].filter)]
    /\ openedAt' = [openedAt EXCEPT ![c] = Len(store)]
    /\ pc' = [pc EXCEPT ![c] = "snapsend"]
    /\ UNCHANGED <<worldVars, gcVars, pushVars, callVars, now, registered,
                   cfg, dirty, signal, limiterC, nticks, held, stream, broken,
                   ctxDone, result, nmark, faulty, ctlVars, lastMark>>

\* one stream.Send of the snapshot loop, or the end of the loop
WatchSnapSend(c) ==
    /\ pc[c] = "snapsend"
    /\ IF snap[c] = <<>>
       THEN /\ pc' = [pc EXCEPT ![c] = "top"]
            /\ UNCHANGED <<snap, stream, broken, result, registered>>
       ELSE \E ok \in SendOutcomes(c) :
            IF ok
            THEN /\ stream' = [stream EXCEPT ![c] = Append(@,
                      Sent(ChangeEvent(<<Head(snap[c])>>, EntityChangeUpdated),
                           "snapshot", Head(snap[c]).id, 0))]
                 /\ snap' = [snap EXCEPT ![c] = Tail(@)]
                 /\ UNCHANGED <<pc, broken, result, registered>>
            ELSE /\ broken' = [broken EXCEPT ![c] = TRUE]
                 /\ Finish(c, "senderr")
                 /\ UNCHANGED <<snap, stream>>
    /\ UNCHANGED <<worldVars, gcVars, pushVars, callVars, now, cfg, dirty,
                   signal, limiterC, nticks, held, ctxDone, nmark, faulty, ctlVars, lastMark, openedAt>>

(***************************************************************************)
(* WorldServer.Push                                                        *)
(***************************************************************************)
\* the entities a client may push: with and without a lifetime, from absent,
\* invalid or valid, until absent, invalid or the instant 1, flash or without
\* a priority
PushEntities ==
    {Entity("a", <<>>, <<>>),
     Entity("a", <<Lifetime(NoTs, 1)>>, <<PriorityFlash>>),
     Entity("b", <<Lifetime(0, 1)>>, <<>>),
     Entity("b", <<Lifetime(BadTs, BadTs)>>, <<PriorityFlash>>)}
MaxBatch == 2
PushBatches ==
    UNION {[1..n -> PushEntities] : n \in 1..MaxBatch}

\* a timeline record; `at` and `frozen` are history: the instant the change
\* was accepted and whether the server was frozen then
Event(e, t) == [Entity |-> e, at |-> t, frozen |-> frozen]

\* a normalisation that stamps from with the acceptance instant always
normalize_StampAlways(e, t) ==
    LET l == IF e.lifetime = <<>> THEN Lifetime(NoTs, NoTs) ELSE e.lifetime[1]
    IN [e EXCEPT !.lifetime = <<[l EXCEPT !.from = t]>>]

\* lifetime normalisation of the push loop, at instant t
normalize(e, t) ==
    LET l == IF e.lifetime = <<>> THEN Lifetime(NoTs, NoTs) ELSE e.lifetime[1]
    IN [e EXCEPT !.lifetime =
          <<IF ~IsValid(l.from) THEN [l EXCEPT !.from = t] ELSE l>>]

\* the policy engine behind the ability refuses the write of this entity
writeDenied(entity) == entity.id \in deny

\* every change is applied although one of them was refused
authorized_Ignored(changes) == TRUE

\* the authorisation loop of Push: the first error ends it
authorized(changes) ==
    \A i \in 1..Len(changes) :
        AuthorizeWrite(changes[i]) /\ ~writeDenied(changes[i])

\* the request is authorised change by change, before any effect; then
\* s.l.Lock().  `resp` records the request while the call runs, and the
\* IDs of a request that was refused.
PushCall(p, changes) ==
    /\ cpc[p] = "idle"
    /\ npush + Len(changes) <= MaxPushes
    /\ IF authorized(changes)
       THEN /\ lock = "free"
            /\ lock' = p
            /\ req' = [req EXCEPT ![p] = changes]
            /\ cpc' = [cpc EXCEPT ![p] = "append"]
            /\ npush' = npush + Len(changes)
            /\ resp' = [resp EXCEPT ![p] =
                  [status |-> "pending", batch |-> changes,
                   base |-> Len(store), ids |-> <<>>]]
       ELSE /\ resp' = [resp EXCEPT ![p] =
                  [status |-> "denied", batch |-> <<>>, base |-> 0,
                   ids |-> [i \in DOMAIN changes |-> changes[i].id]]]
            /\ UNCHANGED <<lock, req, cpc, npush>>
    /\ UNCHANGED <<head, store, frozen, frozenAt, deny, obs, observed, obsLog, geom,
                   reply, gcVars, cur, call, now, registered, consumerVars, ctlVars,
                   nmark>>

\* the head is overwritten whether the server is frozen or not
afterAppend_HeadAlways(isFrozen, rest) == "head"

\* s.frozen.Load() after store.Push: the head overwrite and bus.Dirty, or
\* straight on to the next change
afterAppend(isFrozen, rest) ==
    IF ~isFrozen THEN "head"
    ELSE IF rest = <<>> THEN "unlock" ELSE "append"

\* the change is normalised but never handed to the timeline
PushAppend_NoStore(p) ==
    /\ cpc[p] = "append"
    /\ cur' = [cur EXCEPT ![p] = <<normalize(Head(req[p]), now)>>]
    /\ req' = [req EXCEPT ![p] = Tail(@)]
    /\ cpc' = [cpc EXCEPT ![p] = afterAppend(frozen, Tail(req[p]))]
    /\ UNCHANGED <<head, store, frozen, frozenAt, auxVars, lock, gcVars, npush, call,
                   now, registered, consumerVars, ctlVars, nmark>>

\* normalise the change and hand it to the timeline
PushAppend(p) ==
    /\ cpc[p] = "append"
    /\ LET e == normalize(Head(req[p]), now) IN
       /\ cur' = [cur EXCEPT ![p] = <<e>>]
       /\ store' = Append(store, Event(e, now))
    /\ req' = [req EXCEPT ![p] = Tail(@)]
    /\ cpc' = [cpc EXCEPT ![p] = afterAppend(frozen, Tail(req[p]))]
    /\ UNCHANGED <<head, frozen, frozenAt, auxVars, lock, gcVars, npush, call, now,
                   registered, consumerVars, ctlVars, nmark>>

\* the head keeps the entry it already has for the ID
headPut_KeepFirst(h, e) ==
    IF e.id \in DOMAIN h THEN h ELSE MapPut(h, e.id, e)

\* s.head[e.Id] = e
headPut(h, e) == MapPut(h, e.id, e)

\* s.head[e.Id] = e, then Bus.Dirty(e.Id, e, updated) begins
PushHead(p) ==
    /\ cpc[p] = "head"
    /\ head' = headPut(head, cur[p][1])
    /\ StartCall(p, cur[p][1].id, busPriority(cur[p]), EntityChangeUpdated,
                 registered)
    /\ UNCHANGED <<store, frozen, frozenAt, auxVars, lock, gcVars, pushVars, now,
                   registered, consumerVars, ctlVars, nmark>>

\* Bus.Dirty has returned: the next change, or the end of the loop
PushNext(p) ==
    /\ p \in Pushers
    /\ CallDone(p)
    /\ cpc' = [cpc EXCEPT ![p] = IF req[p] = <<>> THEN "unlock" ELSE "append"]
    /\ call' = [call EXCEPT ![p] = NoCall]
    /\ cur' = [cur EXCEPT ![p] = <<>>]
    /\ UNCHANGED <<worldVars, gcVars, req, npush, now, registered,
                   consumerVars, ctlVars, nmark>>

\* the deferred s.l.Unlock(); the response is accepted
PushUnlock(p) ==
    /\ cpc[p] = "unlock"
    /\ lock' = "free"
    /\ cur' = [cur EXCEPT ![p] = <<>>]
    /\ cpc' = [cpc EXCEPT ![p] = "idle"]
    /\ resp' = [resp EXCEPT ![p] =
          [status |-> "accepted", batch |-> <<>>, base |-> 0, ids |-> <<>>]]
    /\ UNCHANGED <<head, store, frozen, frozenAt, deny, obs, observed, obsLog, geom,
                   reply, gcVars, req, npush, call, now, registered,
                   consumerVars, ctlVars, nmark>>

\* the freeze flag is set and the instant recorded
Freeze ==
    /\ ~frozen
    /\ frozen' = TRUE
    /\ frozenAt' = now
    /\ UNCHANGED <<head, store, auxVars, lock, gcVars, pushVars, callVars, now,
                   registered, consumerVars, ctlVars, nmark>>

(***************************************************************************)
(* WorldServer.GetEntity, WorldServer.ListEntities                         *)
(***************************************************************************)
\* a response, with the request it answers
Reply(op, id, filter, code, entities) ==
    [op |-> op, id |-> id, filter |-> filter, code |-> code,
     entities |-> entities]

\* s.l.RLock(); look the ID up; the read check; the response
GetEntity(id) ==
    /\ lock = "free"
    /\ reply' =
          IF id \notin DOMAIN head
          THEN Reply("get", id, <<>>, "not_found", <<>>)
          ELSE IF ~CanRead(head[id])
               THEN Reply("get", id, <<>>, "permission_denied", <<>>)
               ELSE Reply("get", id, <<>>, "ok", <<head[id]>>)
    /\ UNCHANGED <<head, store, frozen, frozenAt, deny, obs, observed, obsLog, geom,
                   resp, lock, gcVars, pushVars, callVars, now, registered,
                   consumerVars, ctlVars, nmark>>

\* the matching, readable entries of the head, the greatest ID first
listEntities_Unsorted(h, filter) ==
    LET S == {h[k] : k \in {x \in DOMAIN h :
                  /\ matchesListEntitiesRequest(h[x], filter)
                  /\ CanRead(h[x])}}
    IN IF S = {} THEN <<>>
       ELSE LET m == CHOOSE x \in S : \A y \in S : ~IdLess(x.id, y.id)
            IN <<m>> \o SortedById(S \ {m})

\* the matching, readable entries of the head, sorted by ID
listEntities(h, filter) ==
    SortedById({h[k] : k \in {x \in DOMAIN h :
                  /\ matchesListEntitiesRequest(h[x], filter)
                  /\ CanRead(h[x])}})

\* s.l.RLock(); collect; slices.SortFunc; the response
ListEntities(filter) ==
    /\ lock = "free"
    /\ reply' = Reply("list", "", filter, "ok", listEntities(head, filter))
    /\ UNCHANGED <<head, store, frozen, frozenAt, deny, obs, observed, obsLog, geom,
                   resp, lock, gcVars, pushVars, callVars, now, registered,
                   consumerVars, ctlVars, nmark>>

(***************************************************************************)
(* WorldServer.gc                                                          *)
(***************************************************************************)
\* a collector that finds nothing expired
gcExpired_Never(v, t) == FALSE

\* the test of the range loop, against gc's own `now`
gcExpired_AtOrAfter(v, t) ==
    /\ v.lifetime # <<>>
    /\ IsValid(v.lifetime[1].until) /\ t >= v.lifetime[1].until

gcExpired(v, t) ==
    /\ v.lifetime # <<>>
    /\ IsValid(v.lifetime[1].until) /\ t > v.lifetime[1].until

\* the ticker fires: now := time.Now(), or the freeze instant
GcStart ==
    /\ cpc[Gc] = "idle"
    /\ gcNow' = IF frozen THEN frozenAt ELSE now
    /\ cpc' = [cpc EXCEPT ![Gc] = "lock"]
    /\ UNCHANGED <<worldVars, gcTodo, published, pushVars, call, now,
                   registered, consumerVars, ctlVars, nmark>>

\* s.l.Lock(); the range loop starts over the keys of the head
GcLock ==
    /\ cpc[Gc] = "lock"
    /\ lock = "free"
    /\ lock' = Gc
    /\ gcTodo' = DOMAIN head
    /\ cpc' = [cpc EXCEPT ![Gc] = "sweep"]
    /\ UNCHANGED <<head, store, frozen, frozenAt, auxVars, gcNow, published, pushVars,
                   call, now, registered, consumerVars, ctlVars, nmark>>

\* what gc does with an entry it finds expired: the entry stays in the head
gcRemove_Keep(h, k) == h

\* the bus event gc publishes for the entry it removes: no observer event
GcEvent(k) == [trace |-> "gc", observer |-> FALSE, by |-> k]

\* a sweep that empties the head when it finds an expired entry
gcRemove_All(h, k) == [i \in {} |-> h[k]]


\* what gc does with an entry it finds expired
gcRemove(h, k) == MapDelete(h, k)

\* the loop reaches an expired entry: delete it and publish (entity, expired)
GcVisit ==
    /\ cpc[Gc] = "sweep"
    /\ \E k \in gcTodo :
         /\ gcExpired(head[k], gcNow)
         /\ head' = gcRemove(head, k)
         /\ published' = Append(published,
                                ChangeEvent(<<head[k]>>, EntityChangeExpired))
         /\ obsLog' = Append(obsLog, GcEvent(k))
         /\ gcTodo' = gcTodo \ {k}
         /\ StartCall(Gc, k, busPriority(<<head[k]>>), EntityChangeExpired,
                      registered)
    /\ UNCHANGED <<store, frozen, frozenAt, deny, observed, geom, resp, reply,
                   obs, lock, gcNow, pushVars, now, registered, consumerVars,
                   ctlVars, nmark>>

\* Bus.publish has returned: back to the range loop
GcNext ==
    /\ CallDone(Gc)
    /\ cpc' = [cpc EXCEPT ![Gc] = "sweep"]
    /\ call' = [call EXCEPT ![Gc] = NoCall]
    /\ UNCHANGED <<worldVars, gcVars, pushVars, now, registered,
                   consumerVars, ctlVars, nmark>>

\* the loop has no expired entry left to visit: s.l.Unlock()
GcEnd ==
    /\ cpc[Gc] = "sweep"
    /\ ~\E k \in gcTodo : gcExpired(head[k], gcNow)
    /\ lock' = "free"
    /\ gcTodo' = {}
    /\ gcNow' = 0
    /\ cpc' = [cpc EXCEPT ![Gc] = "idle"]
    /\ UNCHANGED <<head, store, frozen, frozenAt, auxVars, published, pushVars,
                   call, now, registered, consumerVars, ctlVars, nmark>>

(***************************************************************************)
(* Specifications                                                          *)
(***************************************************************************)
(***************************************************************************)
(* builtin/controller: handleUpdate and runConnector                       *)
(***************************************************************************)
MaxUpdates == 3
MaxRuns == 2

EmptyConnectors == [i \in {} |-> 0]
NoUpd == [pc |-> "idle", entity |-> <<>>, inst |-> 0, n |-> 0]

\* a connector: the entity ID it runs for, whether its cancel function was
\* called, the deadline of its context (NoTs without one), its position in
\* runConnector, how often run was invoked
Connector(id, deadline) ==
    [id |-> id, cancelled |-> FALSE, deadline |-> deadline, pc |-> "new",
     runs |-> 0]

\* the entity's lifetime.until, NoTs when the lifetime or its until is nil
untilOf(entity) ==
    IF entity.lifetime = <<>> THEN NoTs ELSE entity.lifetime[1].until

\* ctx.Err() == nil for the context of connector i: its cancel function was
\* not called, its deadline has not been reached, its parent is live
ctxLive(i) ==
    /\ ~conns[i].cancelled
    /\ ~parentDone
    /\ (conns[i].deadline = NoTs \/ now < conns[i].deadline)

CtlInit ==
    /\ connectors = EmptyConnectors
    /\ conns = <<>>
    /\ upd = NoUpd
    /\ parentDone = FALSE

\* handleUpdate up to context.WithDeadline: the connector stored for the ID
\* is cancelled and its entry deleted; an entity whose until is not after
\* now ends the call
HandleUpdate(entity) ==
    /\ upd.pc = "idle"
    /\ upd.n < MaxUpdates
    /\ conns' = IF entity.id \in DOMAIN connectors
                THEN [conns EXCEPT ![connectors[entity.id]].cancelled = TRUE]
                ELSE conns
    /\ connectors' = MapDelete(connectors, entity.id)
    /\ upd' = IF untilOf(entity) # NoTs /\ ~(untilOf(entity) > now)
              THEN [NoUpd EXCEPT !.n = upd.n + 1]
              ELSE [pc |-> "store", entity |-> <<entity>>, inst |-> 0,
                    n |-> upd.n + 1]
    /\ UNCHANGED <<worldVars, gcVars, pushVars, callVars, now, registered,
                   consumerVars, nmark, parentDone>>

\* c.mu.Lock(); c.connectors[entity.Id] = cancel; c.mu.Unlock()
HandleStore ==
    /\ upd.pc = "store"
    /\ conns' = Append(conns, Connector(upd.entity[1].id,
                                        untilOf(upd.entity[1])))
    /\ connectors' = MapPut(connectors, upd.entity[1].id, Len(conns) + 1)
    /\ upd' = [upd EXCEPT !.pc = "go", !.inst = Len(conns) + 1]
    /\ UNCHANGED <<worldVars, gcVars, pushVars, callVars, now, registered,
                   consumerVars, nmark, parentDone>>

\* go c.runConnector(connCtx, entity)
HandleGo ==
    /\ upd.pc = "go"
    /\ conns' = [conns EXCEPT ![upd.inst].pc = "check"]
    /\ upd' = [NoUpd EXCEPT !.n = upd.n]
    /\ UNCHANGED <<worldVars, gcVars, pushVars, callVars, now, registered,
                   consumerVars, nmark, parentDone, connectors>>

\* runConnector, top of the loop: `if ctx.Err() != nil { return }`
ConnCheck(i) ==
    /\ i \in DOMAIN conns
    /\ conns[i].pc = "check"
    /\ IF ctxLive(i)
       THEN /\ conns[i].runs < MaxRuns
            /\ conns' = [conns EXCEPT ![i].pc = "call"]
       ELSE conns' = [conns EXCEPT ![i].pc = "exit"]
    /\ UNCHANGED <<worldVars, gcVars, pushVars, callVars, now, registered,
                   consumerVars, nmark, parentDone, connectors, upd>>

\* runConnector: `err := c.run(ctx, entity)`, run is invoked with the
\* context as it is by now
ConnCall(i) ==
    /\ i \in DOMAIN conns
    /\ conns[i].pc = "call"
    /\ conns' = [conns EXCEPT ![i].pc = "run", ![i].runs = @ + 1]
    /\ UNCHANGED <<worldVars, gcVars, pushVars, callVars, now, registered,
                   consumerVars, nmark, parentDone, connectors, upd>>

\* c.run returns, with or without an error, and ctx.Err() is tested again
ConnRun(i) ==
    /\ i \in DOMAIN conns
    /\ conns[i].pc = "run"
    /\ conns' = [conns EXCEPT ![i].pc =
                    IF ctxLive(i) THEN "backoff" ELSE "exit"]
    /\ UNCHANGED <<worldVars, gcVars, pushVars, callVars, now, registered,
                   consumerVars, nmark, parentDone, connectors, upd>>

\* a runConnector whose loop ends after the back-off instead of invoking
\* run again
ConnBackoff_NoRestart(i) ==
    /\ i \in DOMAIN conns
    /\ conns[i].pc = "backoff"
    /\ conns' = [conns EXCEPT ![i].pc = "exit"]
    /\ UNCHANGED <<worldVars, gcVars, pushVars, callVars, now, registered,
                   consumerVars, nmark, parentDone, connectors, upd>>


\* select { case <-ctx.Done(): return; case <-time.After(5 * time.Second): }
ConnBackoff(i) ==
    /\ i \in DOMAIN conns
    /\ conns[i].pc = "backoff"
    /\ \/ /\ ~ctxLive(i)
          /\ conns' = [conns EXCEPT ![i].pc = "exit"]
       \/ conns' = [conns EXCEPT ![i].pc = "check"]
    /\ UNCHANGED <<worldVars, gcVars, pushVars, callVars, now, registered,
                   consumerVars, nmark, parentDone, connectors, upd>>

\* the deferred function: c.mu.Lock(); delete(c.connectors, entity.Id)
ConnExit(i) ==
    /\ i \in DOMAIN conns
    /\ conns[i].pc = "exit"
    /\ connectors' = MapDelete(connectors, conns[i].id)
    /\ conns' = [conns EXCEPT ![i].pc = "gone"]
    /\ UNCHANGED <<worldVars, gcVars, pushVars, callVars, now, registered,
                   consumerVars, nmark, parentDone, upd>>

\* the caller of Run1to1 cancels its context
ParentCancel ==
    /\ ~parentDone
    /\ parentDone' = TRUE
    /\ UNCHANGED <<worldVars, gcVars, pushVars, callVars, now, registered,
                   consumerVars, nmark, connectors, conns, upd>>

\* the entities the updates carry: without lifetime, with an until
UpdateEntities ==
    {Entity(id, lt, <<>>) : id \in Ids, lt \in {<<>>, <<Lifetime(NoTs, 1)>>}}

\* the only deadline a connector gets from these entities is 1, so the clock
\* is followed until it has reached that instant
CtlMaxTime == 1


\* the events Run1to1 receives from the watch stream: a change kind and an
\* entity, which is nil in the snapshot sentinel
StreamEvents ==
    {[t |-> k, entity |-> e] :
        k \in {EntityChangeInvalid, EntityChangeUpdated,
               EntityChangeUnobserved, EntityChangeExpired},
        e \in {<<>>} \cup {<<x>> : x \in UpdateEntities}}

\* the entity Run1to1 hands to handleUpdate for an unobserved or expired
\* event whose entity has a lifetime: the lifetime is replaced by an empty
\* one and its until is set to timestamppb.Now()
Removed(entity) == [entity EXCEPT !.lifetime = <<Lifetime(NoTs, now)>>]

\* one turn of Run1to1's receive loop.  An event without entity is skipped;
\* an updated event calls handleUpdate; an unobserved or expired event
\* assigns entity.Lifetime.Until, which is a nil dereference (the goroutine
\* panics) when the entity has no lifetime; other kinds fall through the
\* switch
Recv(ev) ==
    /\ upd.pc = "idle"
    /\ upd.n < MaxUpdates
    /\ ~parentDone
    /\ IF ev.entity # <<>> /\ ev.t = EntityChangeUpdated
       THEN HandleUpdate(ev.entity[1])
       ELSE IF /\ ev.entity # <<>>
               /\ ev.t \in {EntityChangeUnobserved, EntityChangeExpired}
               /\ ev.entity[1].lifetime # <<>>
       THEN HandleUpdate(Removed(ev.entity[1]))
       ELSE /\ upd' = IF /\ ev.entity # <<>>
                         /\ ev.t \in {EntityChangeUnobserved,
                                      EntityChangeExpired}
                      THEN [NoUpd EXCEPT !.pc = "panic", !.n = upd.n + 1]
                      ELSE [NoUpd EXCEPT !.n = upd.n + 1]
            /\ UNCHANGED <<worldVars, gcVars, pushVars, callVars, now,
                           registered, consumerVars, nmark, parentDone,
                           connectors, conns>>


EmptyHead == [i \in {} |-> Entity("a", <<>>, <<>>)]

\* NewWorldServer: empty head, no subscriber yet
Init ==
    /\ head = EmptyHead
    /\ store = <<>>
    /\ frozen = FALSE
    /\ frozenAt = 0
    /\ deny = {}
    /\ observed = {}
    /\ obsLog = <<>>
    /\ obs = NoObs
    /\ geom = [c \in Consumers |-> <<>>]
    /\ resp = [p \in Pushers |-> NoResp]
    /\ reply = NoReply
    /\ now = 0
    /\ lock = "free"
    /\ registered = {}
    /\ cfg = [c \in Consumers |-> NoCfg]
    /\ dirty = [c \in Consumers |-> EmptyDirty]
    /\ signal = [c \in Consumers |-> 0]
    /\ limiterC = [c \in Consumers |-> 0]
    /\ nticks = [c \in Consumers |-> 0]
    /\ pc = [c \in Consumers |-> "none"]
    /\ held = [c \in Consumers |-> NoHeld]
    /\ snap = [c \in Consumers |-> <<>>]
    /\ stream = [c \in Consumers |-> <<>>]
    /\ broken = [c \in Consumers |-> FALSE]
    /\ ctxDone = [c \in Consumers |-> FALSE]
    /\ result = [c \in Consumers |-> ""]
    /\ faulty = FALSE
    /\ cpc = [k \in Callers |-> "idle"]
    /\ call = [k \in Callers |-> NoCall]
    /\ req = [p \in Pushers |-> <<>>]
    /\ cur = [k \in Pushers \cup Producers |-> <<>>]
    /\ gcNow = 0
    /\ gcTodo = {}
    /\ published = <<>>
    /\ lastMark = [c \in Consumers |-> [id \in Ids |-> NoMark]]
    /\ openedAt = [c \in Consumers |-> -1]
    /\ npush = 0
    /\ nmark = 0
    /\ CtlInit

Sender(c) ==
    \/ SenderPop(c)
    \/ SenderWait(c)
    \/ SenderGet(c)
    \/ SenderRoute(c)
    \/ SenderLimit(c)
    \/ SenderSend(c)
    \/ LimiterTick(c)

\* the sender loop of a consumer that has no rate limiter: it never waits
\* for the limiter's ticker
SenderUnlimited(c) ==
    \/ SenderPop(c)
    \/ SenderWait(c)
    \/ SenderGet(c)
    \/ SenderRoute(c)
    \/ SenderSend(c)

\* the server: pushes, the collector, the clock and one watch stream, which
\* has no rate limiter (the limiter is exercised by the sender-loop tests)
Next ==
    \/ \E f \in WatchFilters : WatchOpen("c1", <<>>, f)
    \/ WatchSentinel("c1")
    \/ WatchSnapshot("c1")
    \/ WatchSnapSend("c1")
    \/ SenderUnlimited("c1")
    \/ \E b \in PushBatches : PushCall("p1", b)
    \/ PushAppend("p1") \/ PushHead("p1") \/ PushNext("p1") \/ PushUnlock("p1")
    \/ \E k \in {"p1", Gc} : DirtyMark(k) \/ DirtySignal(k)
    \/ GcStart \/ GcLock \/ GcVisit \/ GcNext \/ GcEnd
    \/ Tick

Spec == Init /\ [][Next]_vars

\* the removal of one entity as a subscriber sees it: a watch stream with or
\* without a rate limiter and a filter, a client that pushes the entity with
\* an until in the future, the clock and the collector
NextD ==
    \/ \E l \in WatchLimiters, f \in WatchFilters : WatchOpen("c1", l, f)
    \/ WatchSentinel("c1")
    \/ WatchSnapshot("c1")
    \/ WatchSnapSend("c1")
    \/ Sender("c1")
    \/ PushCall("p1", <<Entity("b", <<Lifetime(0, 1)>>, <<>>)>>)
    \/ PushAppend("p1") \/ PushHead("p1") \/ PushNext("p1") \/ PushUnlock("p1")
    \/ \E k \in {"p1", Gc} : DirtyMark(k) \/ DirtySignal(k)
    \/ GcStart \/ GcLock \/ GcVisit \/ GcNext \/ GcEnd
    \/ Tick

SpecD == Init /\ [][NextD]_vars

\* the consumer on its own, as the unit tests drive it: a fixed world, test
\* goroutines calling markDirty, the sender loop started at once and not
\* cancelled (cancellation is exercised by the sender-loop tests)
TestLimiters ==
    {<<>>, <<WatchLimiter(<<1>>, <<>>)>>,
     <<WatchLimiter(<<>>, <<PriorityUnspecified>>)>>,
     <<WatchLimiter(<<>>, <<PriorityImmediate>>)>>}
TestWorld ==
    MapPut(EmptyHead, "a", Entity("a", <<Lifetime(0, 0)>>, <<>>))

InitC ==
    /\ head = TestWorld
    /\ store = <<>>
    /\ frozen = FALSE
    /\ frozenAt = 0
    /\ deny = {}
    /\ observed = {}
    /\ obsLog = <<>>
    /\ obs = NoObs
    /\ geom = [c \in Consumers |-> <<>>]
    /\ resp = [p \in Pushers |-> NoResp]
    /\ reply = NoReply
    /\ now = 0
    /\ lock = "free"
    /\ registered = {}
    /\ \E l \in TestLimiters :
         cfg = [c \in Consumers |->
                  IF c = "c1" THEN ConsumerCfg(FALSE, l, <<>>) ELSE NoCfg]
    /\ dirty = [c \in Consumers |-> EmptyDirty]
    /\ signal = [c \in Consumers |-> 0]
    /\ limiterC = [c \in Consumers |-> 0]
    /\ nticks = [c \in Consumers |-> 0]
    /\ pc = [c \in Consumers |-> IF c = "c1" THEN "top" ELSE "none"]
    /\ held = [c \in Consumers |-> NoHeld]
    /\ snap = [c \in Consumers |-> <<>>]
    /\ stream = [c \in Consumers |-> <<>>]
    /\ broken = [c \in Consumers |-> FALSE]
    /\ ctxDone = [c \in Consumers |-> FALSE]
    /\ result = [c \in Consumers |-> ""]
    /\ faulty = TRUE
    /\ cpc = [k \in Callers |-> "idle"]
    /\ call = [k \in Callers |-> NoCall]
    /\ req = [p \in Pushers |-> <<>>]
    /\ cur = [k \in Pushers \cup Producers |-> <<>>]
    /\ gcNow = 0
    /\ gcTodo = {}
    /\ published = <<>>
    /\ lastMark = [c \in Consumers |-> [id \in Ids |-> NoMark]]
    /\ openedAt = [c \in Consumers |-> -1]
    /\ npush = 0
    /\ nmark = 0
    /\ CtlInit

NextC ==
    \/ \E k \in Producers, id \in Ids, p \in Priorities, ch \in ChangeKinds :
         TestMarkDirty(k, "c1", id, p, ch)
    \/ \E k \in Producers : DirtyMark(k) \/ DirtySignal(k) \/ TestReturn(k)
    \/ Sender("c1")

SpecC == InitC /\ [][NextC]_vars

\* the world store on its own: two clients pushing, the collector, the
\* freeze switch, and one registered subscriber that is not drained
DenySets == {{}, {"b"}}

InitW ==
    /\ head = EmptyHead
    /\ store = <<>>
    /\ frozen = FALSE
    /\ frozenAt = 0
    /\ deny \in DenySets
    /\ observed = {}
    /\ obsLog = <<>>
    /\ obs = NoObs
    /\ geom = [c \in Consumers |-> <<>>]
    /\ resp = [p \in Pushers |-> NoResp]
    /\ reply = NoReply
    /\ now = 0
    /\ lock = "free"
    /\ registered = {"c1"}
    /\ cfg = [c \in Consumers |->
                IF c = "c1" THEN ConsumerCfg(FALSE, <<>>, <<>>) ELSE NoCfg]
    /\ dirty = [c \in Consumers |-> EmptyDirty]
    /\ signal = [c \in Consumers |-> 0]
    /\ limiterC = [c \in Consumers |-> 0]
    /\ nticks = [c \in Consumers |-> 0]
    /\ pc = [c \in Consumers |-> "none"]
    /\ held = [c \in Consumers |-> NoHeld]
    /\ snap = [c \in Consumers |-> <<>>]
    /\ stream = [c \in Consumers |-> <<>>]
    /\ broken = [c \in Consumers |-> FALSE]
    /\ ctxDone = [c \in Consumers |-> FALSE]
    /\ result = [c \in Consumers |-> ""]
    /\ faulty = FALSE
    /\ cpc = [k \in Callers |-> "idle"]
    /\ call = [k \in Callers |-> NoCall]
    /\ req = [p \in Pushers |-> <<>>]
    /\ cur = [k \in Pushers \cup Producers |-> <<>>]
    /\ gcNow = 0
    /\ gcTodo = {}
    /\ published = <<>>
    /\ lastMark = [c \in Consumers |-> [id \in Ids |-> NoMark]]
    /\ openedAt = [c \in Consumers |-> -1]
    /\ npush = 0
    /\ nmark = 0
    /\ CtlInit

NextW ==
    \/ \E p \in Pushers, b \in PushBatches : PushCall(p, b)
    \/ \E p \in Pushers : PushAppend(p) \/ PushHead(p)
                          \/ PushNext(p) \/ PushUnlock(p)
    \/ \E k \in Pushers \cup {Gc} : DirtyMark(k) \/ DirtySignal(k)
    \/ GcStart \/ GcLock \/ GcVisit \/ GcNext \/ GcEnd
    \/ Freeze
    \/ Tick

SpecW == InitW /\ [][NextW]_vars

\* the world store and its readers: one client pushing, the collector, the
\* freeze switch, and GetEntity and ListEntities called at any time
NextQ ==
    \/ \E b \in PushBatches : PushCall("p1", b)
    \/ PushAppend("p1") \/ PushHead("p1") \/ PushNext("p1") \/ PushUnlock("p1")
    \/ \E k \in {"p1", Gc} : DirtyMark(k) \/ DirtySignal(k)
    \/ GcStart \/ GcLock \/ GcVisit \/ GcNext \/ GcEnd
    \/ Freeze
    \/ \E id \in Ids : GetEntity(id)
    \/ \E f \in WatchFilters : ListEntities(f)
    \/ Tick

SpecQ == InitW /\ [][NextQ]_vars

\* watch streams from request to teardown: two clients whose requests may
\* carry a geometry, cancellation, a failing transport, and a goroutine
\* announcing changes on the bus
InitT ==
    /\ head = TestWorld
    /\ store = <<>>
    /\ frozen = FALSE
    /\ frozenAt = 0
    /\ deny = {}
    /\ observed = {}
    /\ obsLog = <<>>
    /\ obs = NoObs
    /\ geom \in {g \in [Consumers -> Geometries] : g["c2"] = <<"wkb">>}
    /\ resp = [p \in Pushers |-> NoResp]
    /\ reply = NoReply
    /\ now = 0
    /\ lock = "free"
    /\ registered = {}
    /\ cfg = [c \in Consumers |-> NoCfg]
    /\ dirty = [c \in Consumers |-> EmptyDirty]
    /\ signal = [c \in Consumers |-> 0]
    /\ limiterC = [c \in Consumers |-> 0]
    /\ nticks = [c \in Consumers |-> 0]
    /\ pc = [c \in Consumers |-> "none"]
    /\ held = [c \in Consumers |-> NoHeld]
    /\ snap = [c \in Consumers |-> <<>>]
    /\ stream = [c \in Consumers |-> <<>>]
    /\ broken = [c \in Consumers |-> FALSE]
    /\ ctxDone = [c \in Consumers |-> FALSE]
    /\ result = [c \in Consumers |-> ""]
    /\ faulty = TRUE
    /\ cpc = [k \in Callers |-> "idle"]
    /\ call = [k \in Callers |-> NoCall]
    /\ req = [p \in Pushers |-> <<>>]
    /\ cur = [k \in Pushers \cup Producers |-> <<>>]
    /\ gcNow = 0
    /\ gcTodo = {}
    /\ published = <<>>
    /\ lastMark = [c \in Consumers |-> [id \in Ids |-> NoMark]]
    /\ openedAt = [c \in Consumers |-> -1]
    /\ npush = 0
    /\ nmark = 0
    /\ CtlInit

NextT ==
    \/ \E c \in Consumers :
          \/ WatchOpen(c, <<>>, <<>>)
          \/ WatchObserve(c)
          \/ WatchSentinel(c)
          \/ WatchSnapshot(c)
          \/ WatchSnapSend(c)
          \/ SenderUnlimited(c)
          \/ Cancel(c)
          \/ WatchTeardown(c)
    \/ BusDirty("t1", "a", <<>>, EntityChangeUpdated)
    \/ DirtyMark("t1") \/ DirtySignal("t1") \/ TestReturn("t1")

SpecT == InitT /\ [][NextT]_vars

\* watch streams with a geometry and the Observe stream on one server,
\* which is either new or has had its Observe stream opened and its gc
\* remove and publish the expired entity of the head; nothing marks an entry
\* dirty from then on, so each stream's sender loop only polls and waits
InitO ==
    /\ store = <<>>
    /\ frozen = FALSE
    /\ frozenAt = 0
    /\ deny = {}
    /\ observed = {}
    /\ geom \in {g \in [Consumers -> Geometries \ {<<>>}] : g["c2"] = <<"wkb">>}
    /\ resp = [p \in Pushers |-> NoResp]
    /\ reply = NoReply
    /\ now = 1
    /\ lock = "free"
    /\ registered = {}
    /\ cfg = [c \in Consumers |-> NoCfg]
    /\ dirty = [c \in Consumers |-> EmptyDirty]
    /\ signal = [c \in Consumers |-> 0]
    /\ limiterC = [c \in Consumers |-> 0]
    /\ nticks = [c \in Consumers |-> 0]
    /\ pc = [c \in Consumers |-> "none"]
    /\ held = [c \in Consumers |-> NoHeld]
    /\ snap = [c \in Consumers |-> <<>>]
    /\ stream = [c \in Consumers |-> <<>>]
    /\ broken = [c \in Consumers |-> FALSE]
    /\ ctxDone = [c \in Consumers |-> FALSE]
    /\ result = [c \in Consumers |-> ""]
    /\ faulty = TRUE
    /\ cpc = [k \in Callers |-> "idle"]
    /\ call = [k \in Callers |-> NoCall]
    /\ req = [p \in Pushers |-> <<>>]
    /\ cur = [k \in Pushers \cup Producers |-> <<>>]
    /\ gcNow = 0
    /\ gcTodo = {}
    /\ lastMark = [c \in Consumers |-> [id \in Ids |-> NoMark]]
    /\ openedAt = [c \in Consumers |-> -1]
    /\ npush = 0
    /\ nmark = 0
    /\ CtlInit
    /\ \/ /\ head = TestWorld
          /\ obsLog = <<>>
          /\ obs = NoObs
          /\ published = <<>>
       \/ /\ head = gcRemove(TestWorld, "a")
          /\ obsLog = <<GcEvent("a")>>
          /\ obs = [pc |-> "wait", from |-> 0, pos |-> 0,
                    out |-> <<ObserverState({})>>]
          /\ published = <<ChangeEvent(<<TestWorld["a"]>>,
                                       EntityChangeExpired)>>

NextO ==
    \/ \E c \in Consumers :
          \/ WatchOpen(c, <<>>, <<>>)
          \/ WatchObserve(c)
          \/ WatchSentinel(c)
          \/ WatchSnapshot(c)
          \/ WatchSnapSend(c)
          \/ SenderPop(c) \/ SenderWait(c)
          \/ Cancel(c)
          \/ WatchTeardown(c)
    \/ ObserveOpen \/ ObserveFirst \/ ObserveRecv \/ ObserveBuild
    \/ ObserveCancel

SpecO == InitO /\ [][NextO]_vars

\* the bus as its unit tests drive it: two consumers made by NewConsumer,
\* registered and unregistered at any time, the sender loop of the first
\* started at any time, and a goroutine calling Dirty with and without an
\* entity
InitB ==
    /\ head = TestWorld
    /\ store = <<>>
    /\ frozen = FALSE
    /\ frozenAt = 0
    /\ deny = {}
    /\ observed = {}
    /\ obsLog = <<>>
    /\ obs = NoObs
    /\ geom = [c \in Consumers |-> <<>>]
    /\ resp = [p \in Pushers |-> NoResp]
    /\ reply = NoReply
    /\ now = 0
    /\ lock = "free"
    /\ registered = {}
    /\ cfg = [c \in Consumers |-> ConsumerCfg(FALSE, <<>>, <<>>)]
    /\ dirty = [c \in Consumers |-> EmptyDirty]
    /\ signal = [c \in Consumers |-> 0]
    /\ limiterC = [c \in Consumers |-> 0]
    /\ nticks = [c \in Consumers |-> 0]
    /\ pc = [c \in Consumers |-> "none"]
    /\ held = [c \in Consumers |-> NoHeld]
    /\ snap = [c \in Consumers |-> <<>>]
    /\ stream = [c \in Consumers |-> <<>>]
    /\ broken = [c \in Consumers |-> FALSE]
    /\ ctxDone = [c \in Consumers |-> FALSE]
    /\ result = [c \in Consumers |-> ""]
    /\ faulty = FALSE
    /\ cpc = [k \in Callers |-> "idle"]
    /\ call = [k \in Callers |-> NoCall]
    /\ req = [p \in Pushers |-> <<>>]
    /\ cur = [k \in Pushers \cup Producers |-> <<>>]
    /\ gcNow = 0
    /\ gcTodo = {}
    /\ published = <<>>
    /\ lastMark = [c \in Consumers |-> [id \in Ids |-> NoMark]]
    /\ openedAt = [c \in Consumers |-> -1]
    /\ npush = 0
    /\ nmark = 0
    /\ CtlInit

NextB ==
    \/ \E c \in Consumers : BusRegister(c) \/ BusUnregister(c)
    \/ LoopStart("c1")
    \/ SenderUnlimited("c1")
    \/ \E id \in Ids, ch \in {EntityChangeUpdated, EntityChangeExpired} :
          \E e \in DirtyEntities(id) : BusDirty("t1", id, e, ch)
    \/ DirtyMark("t1") \/ DirtySignal("t1") \/ TestReturn("t1")

SpecB == InitB /\ [][NextB]_vars

\* the sender-loop tests: a small world prepared by the test, the clock, one
\* consumer whose loop is running from the start, one test goroutine marking
\* entries, a context that may be cancelled (before the loop's first step
\* too), sends that may fail; the only lifetime in these worlds ends at 0, so
\* the clock is followed until it has passed that instant
SenderMaxTime == 1
SenderLimiters ==
    {<<>>, <<WatchLimiter(<<0>>, <<>>)>>, <<WatchLimiter(<<1>>, <<>>)>>}
SenderFilters == {<<>>, <<LeafFilter(<<"b">>, <<>>, <<>>)>>}
SenderWorlds ==
    {MapPut(EmptyHead, "a", [Entity("a", lt, <<>>) EXCEPT !.label = <<"v0">>]) :
        lt \in {<<>>, <<Lifetime(NoTs, 0)>>, <<Lifetime(NoTs, BadTs)>>}}
SenderPriorities == {PriorityRoutine, PriorityFlash}
SenderChanges == {EntityChangeUpdated, EntityChangeExpired}

\* the labels a test gives the successive states it writes for one entity
NextLabel(l) == IF l = <<"v0">> THEN <<"v1">> ELSE <<"v2">>

\* world.l.Lock(); world.head["e1"] = &pb.Entity{Id: "e1", Label: "v1"};
\* world.l.Unlock(); c.markDirty("e1", PriorityRoutine, EntityChangeUpdated)
TestUpdate(k, c) ==
    /\ cpc[k] = "idle"
    /\ lock = "free"
    /\ "a" \in DOMAIN head
    /\ head["a"].label # <<"v2">>
    /\ head' = MapPut(head, "a",
                      [Entity("a", <<>>, <<>>) EXCEPT
                          !.label = NextLabel(head["a"].label)])
    /\ StartCall(k, "a", PriorityRoutine, EntityChangeUpdated, {c})
    /\ UNCHANGED <<store, frozen, frozenAt, auxVars, lock, gcVars, pushVars,
                   now, registered, consumerVars, ctlVars, nmark>>

InitS ==
    /\ head \in SenderWorlds
    /\ store = <<>>
    /\ frozen = FALSE
    /\ frozenAt = 0
    /\ deny = {}
    /\ observed = {}
    /\ obsLog = <<>>
    /\ obs = NoObs
    /\ geom = [c \in Consumers |-> <<>>]
    /\ resp = [p \in Pushers |-> NoResp]
    /\ reply = NoReply
    /\ now = 0
    /\ lock = "free"
    /\ registered = {}
    /\ \E l \in SenderLimiters, f \in SenderFilters :
         cfg = [c \in Consumers |->
                  IF c = "c1" THEN ConsumerCfg(FALSE, l, f) ELSE NoCfg]
    /\ dirty = [c \in Consumers |-> EmptyDirty]
    /\ signal = [c \in Consumers |-> 0]
    /\ limiterC = [c \in Consumers |-> 0]
    /\ nticks = [c \in Consumers |-> 0]
    /\ pc = [c \in Consumers |-> IF c = "c1" THEN "top" ELSE "none"]
    /\ held = [c \in Consumers |-> NoHeld]
    /\ snap = [c \in Consumers |-> <<>>]
    /\ stream = [c \in Consumers |-> <<>>]
    /\ broken = [c \in Consumers |-> FALSE]
    /\ \E d \in BOOLEAN : ctxDone = [c \in Consumers |-> c = "c1" /\ d]
    /\ result = [c \in Consumers |-> ""]
    /\ faulty = TRUE
    /\ cpc = [k \in Callers |-> "idle"]
    /\ call = [k \in Callers |-> NoCall]
    /\ req = [p \in Pushers |-> <<>>]
    /\ cur = [k \in Pushers \cup Producers |-> <<>>]
    /\ gcNow = 0
    /\ gcTodo = {}
    /\ published = <<>>
    /\ lastMark = [c \in Consumers |-> [id \in Ids |-> NoMark]]
    /\ openedAt = [c \in Consumers |-> -1]
    /\ npush = 0
    /\ nmark = 0
    /\ CtlInit

NextS ==
    \/ \E id \in Ids, p \in SenderPriorities, ch \in SenderChanges :
         TestMarkDirty("t1", "c1", id, p, ch)
    \/ DirtyMark("t1") \/ DirtySignal("t1") \/ TestReturn("t1")
    \/ Sender("c1")
    \/ Cancel("c1")
    \/ (now < SenderMaxTime /\ Tick)

SpecS == InitS /\ [][NextS]_vars

\* the coalescing tests: one entity whose head state the test replaces and
\* marks dirty, a consumer with or without a limiter whose loop keeps
\* running (no cancellation, no send error)
InitL ==
    /\ head = MapPut(EmptyHead, "a",
                     [Entity("a", <<>>, <<>>) EXCEPT !.label = <<"v0">>])
    /\ store = <<>>
    /\ frozen = FALSE
    /\ frozenAt = 0
    /\ deny = {}
    /\ observed = {}
    /\ obsLog = <<>>
    /\ obs = NoObs
    /\ geom = [c \in Consumers |-> <<>>]
    /\ resp = [p \in Pushers |-> NoResp]
    /\ reply = NoReply
    /\ now = 0
    /\ lock = "free"
    /\ registered = {}
    /\ \E l \in WatchLimiters :
         cfg = [c \in Consumers |->
                  IF c = "c1" THEN ConsumerCfg(FALSE, l, <<>>) ELSE NoCfg]
    /\ dirty = [c \in Consumers |-> EmptyDirty]
    /\ signal = [c \in Consumers |-> 0]
    /\ limiterC = [c \in Consumers |-> 0]
    /\ nticks = [c \in Consumers |-> 0]
    /\ pc = [c \in Consumers |-> IF c = "c1" THEN "top" ELSE "none"]
    /\ held = [c \in Consumers |-> NoHeld]
    /\ snap = [c \in Consumers |-> <<>>]
    /\ stream = [c \in Consumers |-> <<>>]
    /\ broken = [c \in Consumers |-> FALSE]
    /\ ctxDone = [c \in Consumers |-> FALSE]
    /\ result = [c \in Consumers |-> ""]
    /\ faulty = FALSE
    /\ cpc = [k \in Callers |-> "idle"]
    /\ call = [k \in Callers |-> NoCall]
    /\ req = [p \in Pushers |-> <<>>]
    /\ cur = [k \in Pushers \cup Producers |-> <<>>]
    /\ gcNow = 0
    /\ gcTodo = {}
    /\ published = <<>>
    /\ lastMark = [c \in Consumers |-> [id \in Ids |-> NoMark]]
    /\ openedAt = [c \in Consumers |-> -1]
    /\ npush = 0
    /\ nmark = 0
    /\ CtlInit

NextL ==
    \/ \E id \in Ids, p \in SenderPriorities :
         TestMarkDirty("t1", "c1", id, p, EntityChangeUpdated)
    \/ TestUpdate("t1", "c1")
    \/ DirtyMark("t1") \/ DirtySignal("t1") \/ TestReturn("t1")
    \/ Sender("c1")

\* the loop's goroutine and the test's goroutine are scheduled again and
\* again, and the limiter's ticker keeps firing
SpecL ==
    /\ InitL /\ [][NextL]_vars
    /\ WF_vars(SenderUnlimited("c1") \/ SenderLimit("c1"))
    /\ WF_vars(LimiterTick("c1"))
    /\ WF_vars(DirtyMark("t1") \/ DirtySignal("t1") \/ TestReturn("t1"))

\* the filter scenarios: a head of three entities, list requests and watch
\* requests carrying a filter; nothing is pushed, so a stream ends up waiting
WithParts(id, label, present) ==
    [Entity(id, <<>>, <<>>) EXCEPT !.label = label, !.present = present]

\* A (geo), B (symbol only), C (both)
WorldS5 ==
    MapPut(MapPut(MapPut(EmptyHead,
        "a", WithParts("a", <<>>, {11})),
        "b", WithParts("b", <<>>, {12})),
        "c", WithParts("c", <<>>, {11, 12}))

\* A (geo, label x), B (geo, label y), C (no geo, label x)
WorldS6 ==
    MapPut(MapPut(MapPut(EmptyHead,
        "a", WithParts("a", <<"x">>, {11})),
        "b", WithParts("b", <<"y">>, {11})),
        "c", WithParts("c", <<"x">>, {}))

FilterWorlds == {WorldS5, WorldS6}

\* or: [{label: x}, {component: [geo]}]
OrBranches == <<LeafFilter(<<>>, <<"x">>, <<>>), LeafFilter(<<>>, <<>>, <<11>>)>>

\* or: [{label: x}, {component: [geo]}] together with not: {id: C}
FilterS6 ==
    [LeafFilter(<<>>, <<>>, <<>>) EXCEPT
        !.or = OrBranches, !.not = <<LeafFilter(<<"c">>, <<>>, <<>>)>>]

\* filters without or and not: empty, by label, by ID, by component lists
\* (geo; geo and symbol; label and geo; an unknown tag; geo and an unknown
\* tag), by label and component
LeafFilters ==
    {LeafFilter(<<>>, <<>>, <<>>),
     LeafFilter(<<>>, <<"x">>, <<>>),
     LeafFilter(<<"c">>, <<>>, <<>>),
     LeafFilter(<<>>, <<>>, <<11>>),
     LeafFilter(<<>>, <<>>, <<11, 12>>),
     LeafFilter(<<>>, <<>>, <<2, 11>>),
     LeafFilter(<<>>, <<>>, <<99>>),
     LeafFilter(<<>>, <<>>, <<11, 99>>),
     LeafFilter(<<>>, <<"x">>, <<11>>)}

FilterInputs ==
    {<<>>} \cup {<<f>> : f \in LeafFilters}
    \cup {<<[LeafFilter(<<>>, <<>>, <<>>) EXCEPT !.or = OrBranches]>>,
          <<[LeafFilter(<<>>, <<>>, <<>>) EXCEPT
                !.not = <<LeafFilter(<<"c">>, <<>>, <<>>)>>]>>,
          <<FilterS6>>}

InitF ==
    /\ head \in FilterWorlds
    /\ store = <<>>
    /\ frozen = FALSE
    /\ frozenAt = 0
    /\ deny = {}
    /\ observed = {}
    /\ obsLog = <<>>
    /\ obs = NoObs
    /\ geom = [c \in Consumers |-> <<>>]
    /\ resp = [p \in Pushers |-> NoResp]
    /\ reply = NoReply
    /\ now = 0
    /\ lock = "free"
    /\ registered = {}
    /\ cfg = [c \in Consumers |-> NoCfg]
    /\ dirty = [c \in Consumers |-> EmptyDirty]
    /\ signal = [c \in Consumers |-> 0]
    /\ limiterC = [c \in Consumers |-> 0]
    /\ nticks = [c \in Consumers |-> 0]
    /\ pc = [c \in Consumers |-> "none"]
    /\ held = [c \in Consumers |-> NoHeld]
    /\ snap = [c \in Consumers |-> <<>>]
    /\ stream = [c \in Consumers |-> <<>>]
    /\ broken = [c \in Consumers |-> FALSE]
    /\ ctxDone = [c \in Consumers |-> FALSE]
    /\ result = [c \in Consumers |-> ""]
    /\ faulty = FALSE
    /\ cpc = [k \in Callers |-> "idle"]
    /\ call = [k \in Callers |-> NoCall]
    /\ req = [p \in Pushers |-> <<>>]
    /\ cur = [k \in Pushers \cup Producers |-> <<>>]
    /\ gcNow = 0
    /\ gcTodo = {}
    /\ published = <<>>
    /\ lastMark = [c \in Consumers |-> [id \in Ids |-> NoMark]]
    /\ openedAt = [c \in Consumers |-> -1]
    /\ npush = 0
    /\ nmark = 0
    /\ CtlInit

NextF ==
    \/ \E f \in FilterInputs : ListEntities(f)
    \/ \E f \in FilterInputs : WatchOpen("c1", <<>>, f)
    \/ WatchSentinel("c1")
    \/ WatchSnapshot("c1")
    \/ WatchSnapSend("c1")
    \/ SenderPop("c1")

SpecF == InitF /\ [][NextF]_vars

\* the connector controller on its own: updates handed to handleUpdate one
\* after the other, the connectors it starts, the clock, the parent context
InitK ==
    /\ head = EmptyHead
    /\ store = <<>>
    /\ frozen = FALSE
    /\ frozenAt = 0
    /\ deny = {}
    /\ observed = {}
    /\ obsLog = <<>>
    /\ obs = NoObs
    /\ geom = [c \in Consumers |-> <<>>]
    /\ resp = [p \in Pushers |-> NoResp]
    /\ reply = NoReply
    /\ now = 0
    /\ lock = "free"
    /\ registered = {}
    /\ cfg = [c \in Consumers |-> NoCfg]
    /\ dirty = [c \in Consumers |-> EmptyDirty]
    /\ signal = [c \in Consumers |-> 0]
    /\ limiterC = [c \in Consumers |-> 0]
    /\ nticks = [c \in Consumers |-> 0]
    /\ pc = [c \in Consumers |-> "none"]
    /\ held = [c \in Consumers |-> NoHeld]
    /\ snap = [c \in Consumers |-> <<>>]
    /\ stream = [c \in Consumers |-> <<>>]
    /\ broken = [c \in Consumers |-> FALSE]
    /\ ctxDone = [c \in Consumers |-> FALSE]
    /\ result = [c \in Consumers |-> ""]
    /\ faulty = FALSE
    /\ cpc = [k \in Callers |-> "idle"]
    /\ call = [k \in Callers |-> NoCall]
    /\ req = [p \in Pushers |-> <<>>]
    /\ cur = [k \in Pushers \cup Producers |-> <<>>]
    /\ gcNow = 0
    /\ gcTodo = {}
    /\ published = <<>>
    /\ lastMark = [c \in Consumers |-> [id \in Ids |-> NoMark]]
    /\ openedAt = [c \in Consumers |-> -1]
    /\ npush = 0
    /\ nmark = 0
    /\ CtlInit

NextK ==
    \/ \E e \in UpdateEntities : HandleUpdate(e)
    \/ HandleStore
    \/ HandleGo
    \/ \E i \in 1..MaxUpdates :
         \/ ConnCheck(i) \/ ConnCall(i) \/ ConnRun(i)
         \/ ConnBackoff(i) \/ ConnExit(i)
    \/ ParentCancel
    \/ (now < CtlMaxTime /\ Tick)

SpecK == InitK /\ [][NextK]_vars

\* Run1to1: the receive loop feeds handleUpdate; a panic of the receive
\* loop ends the process, connectors included
NextR ==
    /\ upd.pc # "panic"
    /\ \/ \E ev \in StreamEvents : Recv(ev)
       \/ HandleStore
       \/ HandleGo
       \/ \E i \in 1..MaxUpdates :
            \/ ConnCheck(i) \/ ConnCall(i) \/ ConnRun(i)
         \/ ConnBackoff(i) \/ ConnExit(i)
       \/ ParentCancel
       \/ (now < CtlMaxTime /\ Tick)

SpecR == InitK /\ [][NextR]_vars

\* the connectors of one entity, each goroutine scheduled again and again:
\* a connector waiting in the back-off sees its timer fire or its context
\* end, and a connector at the top of the loop goes on
RestartEntities == {e \in UpdateEntities : e.id = "a"}

NextJ ==
    \/ \E e \in RestartEntities : HandleUpdate(e)
    \/ HandleStore
    \/ HandleGo
    \/ \E i \in 1..MaxUpdates :
         \/ ConnCheck(i) \/ ConnCall(i) \/ ConnRun(i)
         \/ ConnBackoff(i) \/ ConnExit(i)
    \/ ParentCancel
    \/ (now < CtlMaxTime /\ Tick)

SpecJ ==
    /\ InitK
    /\ [][NextJ]_vars
    /\ \A i \in 1..MaxUpdates :
          /\ WF_vars(ConnBackoff(i))
          /\ WF_vars(ConnCheck(i))
          /\ WF_vars(ConnCall(i))

\* every step that the next-state relation Nxt allows from the current state
\* satisfies the action A
EveryStep(Nxt, A) == ~ENABLED (Nxt /\ ~A)

(***************************************************************************)
(* Properties of the consumer's dirty set (checked under SpecC)            *)
(***************************************************************************)
\* the value minPriority() yields, read off the configuration directly
MinOf(cf) ==
    IF cf.limiter # <<>> /\ cf.limiter[1].MinPriority # <<>>
    THEN cf.limiter[1].MinPriority[1]
    ELSE PriorityRoutine

\* the slots an ID is pending in
SlotsOf(d, id) == {p \in Priorities : id \in DOMAIN d[p]}

\* the IDs pending in any slot
Pending(d) == UNION {DOMAIN d[p] : p \in Priorities}

\* the sender holds a drained entry
Holding(c) == pc[c] \in {"get", "route", "limit", "send"}

\* C1: after any interleaving of markDirty and popNext calls, every entity
\* ID is pending in at most one of the consumer's four priority slots.
C1_OneSlotPerID ==
    \A c \in Consumers, id \in Ids : Cardinality(SlotsOf(dirty[c], id)) <= 1

\* two producers have both run markDirty's critical section for the same
\* ID at different priorities, neither has signalled yet, and the ID sits in
\* one slot
C1_Witness ==
    /\ call["t1"].sig = {"c1"} /\ call["t2"].sig = {"c1"}
    /\ call["t1"].entityID = call["t2"].entityID
    /\ call["t1"].priority # call["t2"].priority
    /\ Cardinality(SlotsOf(dirty["c1"], call["t1"].entityID)) = 1

\* C2: popNext never returns an entry from a slot while a higher slot at or
\* above minPriority is non-empty, and returns none exactly when all slots
\* are empty.
C2_PopHighestFirst ==
    EveryStep(NextC,
       \A c \in Consumers :
         (pc[c] = "top" /\ pc'[c] # "top" /\ ~ctxDone[c]) =>
            /\ pc'[c] \in {"get", "wait"}
            /\ pc'[c] = "wait" <=> Pending(dirty[c]) = {}
            /\ pc'[c] = "wait" => dirty'[c] = dirty[c]
            /\ pc'[c] = "get" =>
                 /\ held'[c].entityID \in DOMAIN dirty[c][held'[c].priority]
                 /\ held'[c].change =
                       dirty[c][held'[c].priority][held'[c].entityID]
                 /\ \A q \in Priorities :
                       (q > held'[c].priority /\ q >= MinOf(cfg[c])) =>
                           DOMAIN dirty[c][q] = {}
                 /\ held'[c].entityID \notin Pending(dirty'[c]))

\* the sender holds a flash entry it has just drained while an entry of a
\* lower priority stays pending
C2_Witness ==
    /\ pc["c1"] = "get"
    /\ held["c1"].priority = PriorityFlash
    /\ DOMAIN dirty["c1"][PriorityRoutine] # {}
    /\ lastMark["c1"][held["c1"].entityID].n = 0

\* C3: when markDirty is called several times for one ID with no popNext in
\* between, exactly one entry for the ID is pending and it carries the change
\* kind and the priority of the last call; once popped, the ID is not pending.
C3_Coalescing ==
    \A c \in Consumers, id \in Ids :
        IF lastMark[c][id].n = 0
        THEN SlotsOf(dirty[c], id) = {}
        ELSE /\ SlotsOf(dirty[c], id) = {lastMark[c][id].priority}
             /\ dirty[c][lastMark[c][id].priority][id] = lastMark[c][id].change

\* an ID marked twice without a pop, last as (immediate, expired): one entry
C3_Witness ==
    /\ lastMark["c1"]["a"].n = 2
    /\ lastMark["c1"]["a"].priority = PriorityImmediate
    /\ lastMark["c1"]["a"].change = EntityChangeExpired
    /\ SlotsOf(dirty["c1"], "a") = {PriorityImmediate}

\* C4: a markDirty call with a priority below minPriority leaves the dirty
\* set unchanged and its entry is never popped; minPriority is the limiter's
\* MinPriority when set and routine otherwise.
C4_BelowMinDiscarded ==
    /\ (\A c \in Consumers :
          /\ \A p \in Priorities :
               p < MinOf(cfg[c]) => DOMAIN dirty[c][p] = {}
          /\ Holding(c) => held[c].priority >= MinOf(cfg[c]))
    /\ EveryStep(NextC,
       /\ \A k \in Callers, c \in Consumers :
            (/\ cpc[k] = "dirty" /\ c \in call[k].todo
             /\ cpc'[k] = "dirty" /\ c \notin call'[k].todo
             /\ call[k].priority < MinOf(cfg[c])) =>
                /\ dirty'[c] = dirty[c]
                /\ signal'[c] = signal[c]
                /\ call'[k].sig = {})

\* with no limiter configured, a mark at priority unspecified has returned
\* and nothing is pending
C4_Witness ==
    /\ cfg["c1"].limiter = <<>>
    /\ \E k \in Producers :
         /\ CallDone(k)
         /\ call[k].priority = PriorityUnspecified
    /\ nmark = 1
    /\ Pending(dirty["c1"]) = {}
    /\ pc["c1"] = "wait"

\* C5: markDirty never blocks, whatever the sender loop is doing, and the
\* wake channel never holds more than one token.
C5_NeverBlocks ==
    /\ \A c \in Consumers : signal[c] \in 0..1
    /\ \A k \in Callers :
         /\ (cpc[k] = "dirty" /\ call[k].sig # {}) => ENABLED DirtySignal(k)
         /\ (cpc[k] = "dirty" /\ call[k].sig = {} /\ call[k].todo # {}) =>
               ENABLED DirtyMark(k)

\* the sender waits for a rate-limit token, the wake channel is full, and a
\* producer is about to signal
C5_Witness ==
    /\ pc["c1"] = "limit"
    /\ signal["c1"] = 1
    /\ \E k \in Producers : call[k].sig = {"c1"}

\* C6: a flash entry whose entity is in the head is sent without waiting for
\* a rate-limit token, and while a flash entry is pending no routine or
\* immediate entry is drained ahead of it.
C6_FlashBypass ==
    /\ (\A c \in Consumers :
          pc[c] = "limit" => held[c].priority # PriorityFlash)
    /\ EveryStep(NextC,
       /\ \A c \in Consumers :
            /\ (/\ pc[c] = "top" /\ pc'[c] = "get"
                /\ DOMAIN dirty[c][PriorityFlash] # {}) =>
                   held'[c].priority = PriorityFlash
            /\ (/\ pc[c] = "route" /\ pc'[c] # "route"
                /\ held[c].priority = PriorityFlash
                /\ held[c].entity # <<>>) =>
                   pc'[c] = "send"
            /\ (/\ pc[c] = "send" /\ pc'[c] = "top"
                /\ held[c].priority = PriorityFlash) =>
                   /\ limiterC'[c] = limiterC[c]
                   /\ stream'[c] = Append(stream[c],
                        Sent(ChangeEvent(held[c].entity, held[c].change),
                             "flash", held[c].entityID, PriorityFlash)))

\* a rate-limited consumer that never got a token has sent a flash event
\* with its entity while a routine entry is still pending
C6_Witness ==
    /\ hasRateLimiter(cfg["c1"])
    /\ limiterC["c1"] = 0
    /\ Len(stream["c1"]) = 1
    /\ stream["c1"][1].path = "flash"
    /\ stream["c1"][1].ev.Entity # <<>>
    /\ DOMAIN dirty["c1"][PriorityRoutine] # {}

(***************************************************************************)
(* Properties of the world server and its watch streams (checked under     *)
(* Spec; the removal of an entity under SpecD)                             *)
(***************************************************************************)
\* the entity passes the stream's own filter (a stream without one passes all)
PassesFilter(c, e) == matchesEntityFilter(e, cfg[c].filter)

C7_FilteredBelowFlash ==
    \A c \in Consumers :
        stream[c] # <<>> =>
            /\ stream[c][1].ev.T = EntityChangeInvalid
            /\ \A i \in 2..Len(stream[c]) :
                 (stream[c][i].ev.Entity # <<>> /\ stream[c][i].path # "flash")
                     => PassesFilter(c, stream[c][i].ev.Entity[1])

\* the test gc applies, read off the entry
Overdue(e, t) ==
    /\ e.lifetime # <<>>
    /\ e.lifetime[1].until >= 0
    /\ e.lifetime[1].until < t

\* C8: the sweep that finds an entry whose until is valid and strictly before
\* the sweep's instant removes it and publishes exactly one expired event for
\* it; nothing is published for an entry that is not removed, so a later
\* sweep publishes again only after the ID was pushed again.
C8_GcRemovesOnce ==
    /\ EveryStep(Next,
       /\ \A id \in Ids :
            (id \in DOMAIN head /\ id \notin DOMAIN head') =>
                /\ lock = Gc
                /\ Overdue(head[id], gcNow)
                /\ published' = Append(published,
                       ChangeEvent(<<head[id]>>, EntityChangeExpired))
       /\ published' # published =>
            \E id \in DOMAIN head :
                /\ id \notin DOMAIN head'
                /\ published' = Append(published,
                       ChangeEvent(<<head[id]>>, EntityChangeExpired))
       /\ (lock = Gc /\ lock' = "free") =>
            \A id \in DOMAIN head : ~Overdue(head[id], gcNow))

\* one expired event was published, its entry is gone, the subscriber has
\* received the removal, and a later sweep holds the lock without publishing
C8_Witness ==
    /\ Len(published) = 1
    /\ published[1].Entity[1].id \notin DOMAIN head
    /\ Len(store) = 1
    /\ \E i \in DOMAIN stream["c1"] :
         /\ stream["c1"][i].ev.T = EntityChangeExpired
         /\ stream["c1"][i].ev.Entity = <<>>
    /\ lock = Gc

\* the timeline records of an ID
Records(id) == {i \in DOMAIN store : store[i].Entity.id = id}

\* how many events of a kind the stream has carried for an ID
Count(c, id, kind) ==
    Cardinality({i \in DOMAIN stream[c] :
                    stream[c][i].id = id /\ stream[c][i].ev.T = kind})

\* the ID was pushed once, after the stream's snapshot, with an until in the
\* future; gc has removed it; the stream has drained everything it was told
PushedExpiredDrained(c, id) ==
    /\ Cardinality(Records(id)) = 1
    /\ openedAt[c] >= 0
    /\ \A i \in Records(id) :
         /\ i > openedAt[c]
         /\ store[i].Entity.lifetime[1].until > store[i].at
    /\ \E j \in DOMAIN published : published[j].Entity[1].id = id
    /\ \A k \in Callers : cpc[k] # "dirty"
    /\ pc[c] = "wait"
    /\ Pending(dirty[c]) = {}

InTimeline(e) == \E i \in DOMAIN store : store[i].Entity = e

\* C10: within one push, the change is appended to the timeline before the
\* head is overwritten with it and before any consumer is notified of it.
C10_TimelineFirst ==
    /\ (/\ \A id \in DOMAIN head : InTimeline(head[id])
        /\ \A p \in Pushers :
             cpc[p] = "dirty" =>
                 /\ InTimeline(cur[p][1])
                 /\ cur[p][1].id \in DOMAIN head
                 /\ head[cur[p][1].id] = cur[p][1])
    /\ EveryStep(Next,
       /\ \A id \in Ids :
            (/\ id \in DOMAIN head'
             /\ (id \notin DOMAIN head \/ head'[id] # head[id])) =>
                /\ InTimeline(head'[id])
                /\ store' = store
       /\ \A c \in Consumers, id \in Ids :
            (/\ lock \in Pushers
             /\ lastMark'[c][id].n > lastMark[c][id].n) =>
                /\ id \in DOMAIN head /\ InTimeline(head[id])
                /\ head' = head /\ store' = store)

\* the change is in the timeline, the head does not hold it yet, and the
\* registered consumer has not been told
C10_Witness ==
    /\ cpc["p1"] = "head"
    /\ "c1" \in registered
    /\ InTimeline(cur["p1"][1])
    /\ cur["p1"][1].id \notin DOMAIN head
    /\ Pending(dirty["c1"]) = {}
    /\ Len(stream["c1"]) = 1

(***************************************************************************)
(* Properties of the world store (checked under SpecW and SpecQ)           *)
(***************************************************************************)
\* the timeline records of pushes of the ID that were accepted while the
\* server was not frozen and whose head overwrite has been done
Overwrites(id) ==
    {i \in DOMAIN store :
        /\ store[i].Entity.id = id
        /\ ~store[i].frozen
        /\ ~\E p \in Pushers : cpc[p] = "head" /\ i = Len(store)}

LastOverwrite(id) ==
    CHOOSE i \in Overwrites(id) : \A j \in Overwrites(id) : j <= i

\* how often the ID occurs in a sequence of entities
Occurrences(seq, id) == Cardinality({i \in DOMAIN seq : seq[i].id = id})

\* C11: the head holds at most one record per ID, filed under its own ID,
\* and that record is the entity of the most recent push of the ID accepted
\* while the server was not frozen, also when two clients push concurrently;
\* a listing of the head contains each of its IDs exactly once, however
\* often it was pushed.
C11_HeadIsLastPush ==
    /\ \A id \in DOMAIN head :
          /\ head[id].id = id
          /\ Overwrites(id) # {}
          /\ head[id] = store[LastOverwrite(id)].Entity
    /\ \A id \in Ids :
          Occurrences(listEntities(head, <<>>), id)
              = IF id \in DOMAIN head THEN 1 ELSE 0

\* two clients have each pushed the ID "a", the second push has replaced the
\* first in the head, and a listing of that head holds "a" exactly once
C11_Witness ==
    /\ resp["p1"].status = "accepted" /\ resp["p2"].status = "accepted"
    /\ Cardinality(Overwrites("a")) = 2
    /\ store[1].Entity # store[2].Entity
    /\ "a" \in DOMAIN head /\ head["a"] = store[2].Entity
    /\ Occurrences(listEntities(head, <<>>), "a") = 1

\* the until of a pushed entity as the client sent it
UntilOf(e) == IF e.lifetime = <<>> THEN NoTs ELSE e.lifetime[1].until

\* the entity is the pushed entity `raw` as Push accepts it at instant t:
\* a lifetime with a valid from (the client's when valid, t otherwise), the
\* client's until, everything else as sent
Normalized(e, raw, t) ==
    /\ e.lifetime # <<>>
    /\ IsValid(e.lifetime[1].from)
    /\ e.lifetime[1].from =
          IF raw.lifetime # <<>> /\ IsValid(raw.lifetime[1].from)
          THEN raw.lifetime[1].from ELSE t
    /\ e.lifetime[1].until = UntilOf(raw)
    /\ [e EXCEPT !.lifetime = <<>>] = [raw EXCEPT !.lifetime = <<>>]

\* C12: every accepted change enters the timeline, and when not frozen the
\* head, as the pushed entity with a lifetime whose from is valid: the
\* acceptance instant when the client sent none or an invalid one, the
\* client's own otherwise; until is never created or altered; every head
\* entry, and so every entity GetEntity returns, has a lifetime with a valid
\* from.
C12_LifetimeNormalised ==
    /\ (/\ \A id \in DOMAIN head :
             /\ head[id].lifetime # <<>>
             /\ IsValid(head[id].lifetime[1].from)
        /\ (reply.op = "get" /\ reply.code = "ok") =>
             /\ reply.entities[1].lifetime # <<>>
             /\ IsValid(reply.entities[1].lifetime[1].from))
    /\ EveryStep(NextQ,
       /\ Len(store') > Len(store) =>
            /\ lock \in Pushers
            /\ Len(store') = Len(store) + 1
            /\ Normalized(store'[Len(store')].Entity, Head(req[lock]), now)
       /\ \A id \in Ids :
            (/\ id \in DOMAIN head'
             /\ (id \notin DOMAIN head \/ head'[id] # head[id])) =>
                /\ lock \in Pushers /\ ~store[Len(store)].frozen
                /\ head'[id] = store[Len(store)].Entity
       /\ (reply' # reply /\ reply'.op = "get" /\ reply'.code = "ok") =>
            /\ reply'.id \in DOMAIN head
            /\ reply'.entities = <<head[reply'.id]>>)

\* "a", pushed without a lifetime at instant 1, is returned by GetEntity with
\* from = 1 and no until, and "b", pushed afterwards with from = 0, is in the
\* head with from = 0
C12_Witness ==
    /\ reply.op = "get" /\ reply.code = "ok"
    /\ reply.entities = <<Entity("a", <<Lifetime(1, NoTs)>>, <<>>)>>
    /\ Len(store) = 2 /\ store[1].at = 1 /\ store[2].at >= 1
    /\ "b" \in DOMAIN head
    /\ head["b"] = Entity("b", <<Lifetime(0, 1)>>, <<>>)

\* the change a pusher is applying was appended while the server was frozen
AppendedFrozen == store # <<>> /\ store[Len(store)].frozen

\* C13: a change pushed while the server is frozen is appended to the
\* timeline and the push returns accepted, but the head is not overwritten
\* and no consumer is marked for it; a sweep of the collector that starts
\* while the server is frozen compares until against the freeze instant.
C13_FrozenMode ==
    /\ (\A p \in Pushers : cpc[p] \in {"head", "dirty"} => ~AppendedFrozen)
    /\ EveryStep(NextW,
       /\ \A p \in Pushers :
            (cpc[p] = "append" /\ req'[p] # req[p]) =>
                /\ store' = Append(store, Event(normalize(Head(req[p]), now),
                                                now))
                /\ frozen => /\ cpc'[p] \in {"append", "unlock"}
                             /\ head' = head /\ dirty' = dirty
                             /\ call' = call /\ signal' = signal
       /\ (lock \in Pushers /\ AppendedFrozen) =>
            /\ head' = head /\ dirty' = dirty
            /\ call' = call /\ signal' = signal
       /\ \A p \in Pushers :
            (cpc[p] = "unlock" /\ cpc'[p] = "idle") =>
                /\ resp'[p].status = "accepted"
                /\ Len(store) = resp[p].base + Len(resp[p].batch)
       /\ (cpc[Gc] = "idle" /\ cpc'[Gc] # "idle") =>
            gcNow' = IF frozen THEN frozenAt ELSE now
       /\ \A id \in DOMAIN head :
            (lock = Gc /\ id \notin DOMAIN head') =>
                /\ head[id].lifetime[1].until < gcNow
                /\ gcNow' = gcNow)

\* the server was frozen at instant 1 with "b" (until 1) in the head; at
\* instant 2 a push of "a" was accepted into the timeline, the head and the
\* subscriber know nothing of "a", and a sweep comparing against instant 1
\* finds nothing to remove although until has passed on the wall clock
C13_Witness ==
    /\ frozen /\ frozenAt = 1 /\ now = 2
    /\ Len(store) = 2 /\ store[2].frozen /\ store[2].at = 2
    /\ store[2].Entity.id = "a"
    /\ \E p \in Pushers : resp[p].status = "accepted"
    /\ DOMAIN head = {"b"} /\ head["b"].lifetime[1].until = 1
    /\ "a" \notin Pending(dirty["c1"]) /\ lastMark["c1"]["a"].n = 0
    /\ cpc[Gc] = "sweep" /\ gcNow = 1
    /\ ~\E k \in gcTodo : gcExpired(head[k], gcNow)

\* the timeline records of the request the pusher is about to end
BatchRecords(p) == resp[p].base + 1 .. resp[p].base + Len(resp[p].batch)

\* the last of those records that was to overwrite the head entry of the ID
LastOf(p, id) ==
    LET S == {i \in BatchRecords(p) :
                 store[i].Entity.id = id /\ ~store[i].frozen}
    IN IF S = {} THEN 0 ELSE CHOOSE i \in S : \A j \in S : j <= i

\* C14: a push is authorised as a whole before it has any effect.  A
\* request with a refused change ends with an error and leaves the timeline,
\* the head, the lock and every dirty set as they were; a request that is
\* carried out contains no refused change, and when it returns accepted
\* every one of its changes is in the timeline, in order, and, for the
\* changes accepted while not frozen, in the head and in the dirty set of
\* the registered consumer.
C14_AllOrNothing ==
    /\ (\A p \in Pushers :
          resp[p].status = "pending" =>
              \A i \in DOMAIN resp[p].batch : ~writeDenied(resp[p].batch[i]))
    /\ EveryStep(NextW,
       /\ \A p \in Pushers :
            (resp'[p] # resp[p] /\ resp'[p].status = "denied") =>
                /\ \E i \in DOMAIN resp'[p].ids : resp'[p].ids[i] \in deny
                /\ store' = store /\ head' = head /\ dirty' = dirty
                /\ signal' = signal /\ lock' = lock
                /\ cpc' = cpc /\ call' = call
       /\ \A p \in Pushers :
            (resp[p].status = "pending" /\ resp'[p].status # "pending") =>
                /\ resp'[p].status = "accepted"
                /\ Len(store) = resp[p].base + Len(resp[p].batch)
                /\ \A i \in DOMAIN resp[p].batch :
                      LET r == store[resp[p].base + i] IN
                      /\ Normalized(r.Entity, resp[p].batch[i], r.at)
                      /\ ~r.frozen =>
                            /\ r.Entity.id \in DOMAIN head
                            /\ head[r.Entity.id] =
                                  store[LastOf(p, r.Entity.id)].Entity
                            /\ r.Entity.id \in Pending(dirty["c1"]))

\* with writes of "b" refused, one client's request for "a" and "b" was
\* denied and left no trace, and the other client's request for "a" twice
\* was carried out in full
C14_Witness ==
    /\ deny = {"b"}
    /\ resp["p1"].status = "denied"
    /\ resp["p1"].ids = <<"a", "b">>
    /\ resp["p2"].status = "accepted"
    /\ Len(store) = 2
    /\ DOMAIN head = {"a"} /\ head["a"] = store[2].Entity
    /\ Pending(dirty["c1"]) = {"a"}

\* the entry of the ID in head h was pushed with an until that was valid and
\* not after the instant the push was accepted
PushedPast(h, id) ==
    /\ id \in DOMAIN h
    /\ Overwrites(id) # {}
    /\ h[id] = store[LastOverwrite(id)].Entity
    /\ IsValid(h[id].lifetime[1].until)
    /\ h[id].lifetime[1].until <= store[LastOverwrite(id)].at

\* the entity's until is valid and strictly before instant t
UntilBefore(e, t) ==
    /\ e.lifetime # <<>>
    /\ IsValid(e.lifetime[1].until)
    /\ e.lifetime[1].until < t

\* a step in which GetEntity answers: it answers from the head as it is
\* under the reader lock
AnswersFromHead ==
    (reply' # reply /\ reply'.op = "get") =>
         /\ lock = "free"
         /\ IF reply'.id \in DOMAIN head
            THEN /\ reply'.code = "ok"
                 /\ reply'.entities = <<head[reply'.id]>>
            ELSE /\ reply'.code = "not_found"
                 /\ reply'.entities = <<>>

StrictlyAscending(seq) ==
    \A i \in 1..Len(seq) - 1 : IdLess(seq[i].id, seq[i + 1].id)

\* C16: ListEntities answers while no writer holds the lock, with exactly
\* the entries of the head at that moment that match the request's filter
\* and pass the read check, each once, in strictly ascending order of ID.
C16_ListIsSortedSnapshot ==
    /\ (reply.op = "list" =>
          /\ StrictlyAscending(reply.entities)
          /\ \A id \in Ids : Occurrences(reply.entities, id) <= 1)
    /\ EveryStep(NextQ,
       /\ (reply' # reply /\ reply'.op = "list") =>
            /\ lock = "free"
            /\ \A p \in Pushers : cpc[p] = "idle"
            /\ cpc[Gc] \in {"idle", "lock"}
            /\ reply'.code = "ok"
            /\ {reply'.entities[i] : i \in DOMAIN reply'.entities} =
                  {head[id] : id \in
                      {k \in DOMAIN head :
                          /\ matchesEntityFilter(head[k], reply'.filter)
                          /\ CanRead(head[k])}})

\* with "a" and "b" in the head, an unfiltered listing returned "a" and then
\* "b", and nothing else
C16_Witness ==
    /\ reply.op = "list" /\ reply.filter = <<>>
    /\ Len(reply.entities) = 2
    /\ reply.entities[1].id = "a" /\ reply.entities[2].id = "b"
    /\ DOMAIN head = {"a", "b"}
    /\ reply.entities = <<head["a"], head["b"]>>

(***************************************************************************)
(* Order of a watch stream (checked under Spec)                            *)
(***************************************************************************)
\* the phase an entry of a stream belongs to
PhaseOf(x) ==
    IF x.path = "sentinel" THEN 0 ELSE IF x.path = "snapshot" THEN 1 ELSE 2

\* the entities of the snapshot events a stream has delivered so far
SnapSent(c) ==
    LET S == SelectSeq(stream[c], LAMBDA x : x.path = "snapshot")
    IN [i \in DOMAIN S |-> S[i].ev.Entity[1]]

\* C17: a watch stream delivers one sentinel event of kind invalid first,
\* then the entries of the head that match its filter, as updated events in
\* strictly ascending order of ID, then live events; nothing live is
\* delivered before the last snapshot event.
C17_ThreePhases ==
    /\ (\A c \in Consumers :
          /\ \A i \in DOMAIN stream[c] :
                /\ (i = 1) <=> (stream[c][i].path = "sentinel")
                /\ stream[c][i].path = "sentinel" =>
                      /\ stream[c][i].ev.T = EntityChangeInvalid
                      /\ stream[c][i].ev.Entity = <<>>
                /\ stream[c][i].path = "snapshot" =>
                      /\ stream[c][i].ev.T = EntityChangeUpdated
                      /\ stream[c][i].ev.Entity # <<>>
                      /\ matchesEntityFilter(stream[c][i].ev.Entity[1],
                                             cfg[c].filter)
                /\ \A j \in DOMAIN stream[c] :
                      i < j => PhaseOf(stream[c][i]) <= PhaseOf(stream[c][j])
          /\ StrictlyAscending(SnapSent(c) \o snap[c])
          /\ pc[c] \in {"sentinel", "snapshot"} => SnapSent(c) = <<>>
          /\ (pc[c] \in {"sentinel", "snapshot", "snapsend"}
               \/ snap[c] # <<>>) =>
                \A i \in DOMAIN stream[c] : PhaseOf(stream[c][i]) < 2)
    /\ EveryStep(Next,
       /\ \A c \in Consumers :
            (pc[c] = "snapshot" /\ pc'[c] # "snapshot") =>
                /\ lock = "free"
                /\ {snap'[c][i] : i \in DOMAIN snap'[c]} =
                      {head[k] : k \in {x \in DOMAIN head :
                          matchesEntityFilter(head[x], cfg[c].filter)}}
       /\ \A c \in Consumers :
            pc[c] = "snapsend" =>
                /\ (SnapSent(c) \o snap[c])' = SnapSent(c) \o snap[c]
                /\ pc'[c] # "snapsend" => snap[c] = <<>>)

\* a stream that delivered the sentinel, then "a", then "b" from the
\* snapshot, and then a live event
C17_Witness ==
    /\ Len(stream["c1"]) >= 4
    /\ stream["c1"][1].path = "sentinel"
    /\ stream["c1"][2].path = "snapshot" /\ stream["c1"][2].id = "a"
    /\ stream["c1"][3].path = "snapshot" /\ stream["c1"][3].id = "b"
    /\ PhaseOf(stream["c1"][4]) = 2

(***************************************************************************)
(* Teardown of a watch stream (checked under SpecT)                        *)
(***************************************************************************)
\* the stream's handler is running
Open(c) == pc[c] \notin {"none", "done"}

\* the request carried a geometry whose WKB decodes
HasGeometry(c) == geom[c] # <<>> /\ decodes(geom[c][1])

\* the positions of the log at which the stream announced the change
Announced(trace, c) ==
    {i \in DOMAIN obsLog : obsLog[i] = ObserverEvent(trace, c)}

Running(c) == pc[c] \notin {"none", "done"}

\* C19: a Dirty call sets out to mark exactly the consumers registered when
\* it is made, marks each of them once with its ID, and returns only when it
\* has marked them all; no consumer is marked except by a call that found
\* it registered.  Unregistering is possible at any moment, also while the
\* consumer's sender loop runs and while a Dirty call is under way, and
\* afterwards the call can still take its next step and the loop can still
\* go on with what it holds.
C19_FanOut ==
    /\ (/\ \A c \in registered : ENABLED BusUnregister(c)
        /\ \A k \in Producers :
             cpc[k] = "dirty" =>
                 /\ (call[k].sig = {} /\ call[k].todo # {}) =>
                       ENABLED DirtyMark(k)
                 /\ call[k].sig # {} => ENABLED DirtySignal(k)
                 /\ CallDone(k) => ENABLED TestReturn(k)
        /\ \A c \in Consumers :
             (Running(c) /\ (pc[c] # "wait" \/ signal[c] > 0)) =>
                 ENABLED SenderUnlimited(c))
    /\ EveryStep(NextB,
       /\ \A k \in Producers :
            /\ (cpc[k] = "idle" /\ cpc'[k] = "dirty") =>
                  call'[k].todo = registered
            /\ (cpc[k] = "dirty" /\ cpc'[k] = "dirty"
                 /\ call'[k].todo # call[k].todo) =>
                  \E c \in call[k].todo :
                      /\ call'[k].todo = call[k].todo \ {c}
                      /\ call[k].entityID \in Pending(dirty'[c])
                      /\ lastMark'[c][call[k].entityID].n
                           = lastMark[c][call[k].entityID].n + 1
            /\ (cpc[k] = "dirty" /\ cpc'[k] = "idle") =>
                  call[k].todo = {} /\ call[k].sig = {}
       /\ \A c \in Consumers, id \in Ids :
            (\/ lastMark'[c][id].n > lastMark[c][id].n
             \/ id \in Pending(dirty'[c]) \ Pending(dirty[c])) =>
                \E k \in Producers :
                    /\ cpc[k] = "dirty" /\ call[k].entityID = id
                    /\ c \in call[k].todo \ call'[k].todo)

\* the first consumer received "a" while registered and was unregistered
\* with its loop running; a later Dirty call for "b" has marked the second
\* consumer and not the first
C19_Witness ==
    /\ registered = {"c2"}
    /\ pc["c1"] = "wait" /\ Len(stream["c1"]) = 1 /\ stream["c1"][1].id = "a"
    /\ Pending(dirty["c1"]) = {}
    /\ cpc["t1"] = "dirty" /\ call["t1"].entityID = "b"
    /\ call["t1"].todo = {} /\ call["t1"].sig = {}
    /\ Pending(dirty["c2"]) = {"a", "b"}

\* the priority a Dirty call with this entity argument is to use
PriorityOf(entity) ==
    IF entity = <<>> THEN PriorityRoutine
    ELSE IF entity[1].priority = <<>> THEN PriorityRoutine
    ELSE entity[1].priority[1]

\* C20: a Dirty call marks with the entity's priority when an entity is
\* given and carries one, and with routine when the entity has no priority
\* or is nil; each consumer it marks holds the call's ID in the slot of
\* that priority with the call's change kind, also when the entity is nil.
C20_BusPriority ==
    /\ (\A k \in Producers :
          cpc[k] = "dirty" => call[k].priority = PriorityOf(cur[k]))
    /\ EveryStep(NextB,
       /\ \A k \in Producers, c \in Consumers :
            (cpc[k] = "dirty" /\ c \in call[k].todo \ call'[k].todo) =>
                /\ call[k].entityID \in DOMAIN dirty'[c][PriorityOf(cur[k])]
                /\ dirty'[c][PriorityOf(cur[k])][call[k].entityID]
                     = call[k].change
                /\ lastMark'[c][call[k].entityID].priority = PriorityOf(cur[k])
                /\ lastMark'[c][call[k].entityID].change = call[k].change)

\* Dirty("b", nil, expired) has marked the registered consumer: "b" is
\* pending in its routine slot with kind expired
C20_Witness ==
    /\ cpc["t1"] = "dirty" /\ cur["t1"] = <<>>
    /\ call["t1"].entityID = "b" /\ call["t1"].change = EntityChangeExpired
    /\ call["t1"].todo = {} /\ "c2" \in registered
    /\ "b" \in DOMAIN dirty["c2"][PriorityRoutine]
    /\ dirty["c2"][PriorityRoutine]["b"] = EntityChangeExpired

(***************************************************************************)
(* Properties of the sender loop (checked under SpecS)                     *)
(***************************************************************************)
\* the entry of the head for an ID, as a lookup under the reader lock finds it
HeadEntry(id) == IF id \in DOMAIN head THEN <<head[id]>> ELSE <<>>

\* C21: for a drained entry that is not flash, the entity is the head's
\* entry for the ID read after the drain; when it is missing, or its
\* lifetime.until is valid and in the past, the event is sent with kind
\* expired whatever the pending kind was (with a nil entity when missing);
\* otherwise with the pending kind; the event carries that entity.
C21_ExpiryOverride ==
    EveryStep(NextS,
       \A c \in Consumers :
         /\ (pc[c] = "get" /\ pc'[c] = "route") =>
               /\ held'[c].entity = HeadEntry(held[c].entityID)
               /\ held'[c].change = held[c].change
         /\ (pc[c] = "route" /\ pc'[c] \in {"limit", "send"}
             /\ held[c].priority # PriorityFlash) =>
               /\ held'[c].entity = held[c].entity
               /\ held'[c].change =
                    IF held[c].entity = <<>> THEN EntityChangeExpired
                    ELSE IF UntilBefore(held[c].entity[1], now)
                    THEN EntityChangeExpired
                    ELSE held[c].change
         /\ (pc[c] = "limit" /\ pc'[c] = "send") => held'[c] = held[c]
         /\ (stream'[c] # stream[c] /\ held[c].priority # PriorityFlash) =>
               /\ pc[c] = "send"
               /\ stream'[c] = Append(stream[c],
                     Sent(ChangeEvent(held[c].entity, held[c].change),
                          "normal", held[c].entityID, held[c].priority)))

\* two entries were sent on the normal path as expired: "b", missing
\* from the head, with a nil entity, and "a" with its head entity, whose
\* until had passed
C21_Witness ==
    /\ Len(stream["c1"]) = 2
    /\ \E i, j \in 1..2 :
         /\ stream["c1"][i].id = "b" /\ stream["c1"][i].ev.Entity = <<>>
         /\ stream["c1"][i].ev.T = EntityChangeExpired
         /\ stream["c1"][j].id = "a" /\ stream["c1"][j].ev.Entity # <<>>
         /\ UntilBefore(stream["c1"][j].ev.Entity[1], now)
         /\ stream["c1"][j].ev.T = EntityChangeExpired
    /\ \A i \in 1..2 : stream["c1"][i].path = "normal"
    /\ lastMark["c1"]["a"].n = 0 /\ lastMark["c1"]["b"].n = 0
    /\ dirty["c1"] = EmptyDirty


\* the loop of consumer c is at a suspension point with nothing to receive
Blocked(c) ==
    \/ pc[c] = "wait" /\ signal[c] = 0
    \/ pc[c] = "limit" /\ limiterC[c] = 0

\* the loop of consumer c returns the cancellation error in this step
\* without a send
ReturnsCancelled(c) ==
    /\ pc'[c] = "done" /\ result'[c] = "cancelled"
    /\ stream'[c] = stream[c]
    /\ held'[c] = NoHeld

\* C22: a loop that finds its context cancelled at the top of an iteration
\* (so also one started with a cancelled context) returns the cancellation
\* error without a send and without draining, whatever the dirty set holds;
\* a loop whose context is cancelled while it is blocked on the wake signal
\* or on the limiter's token returns the cancellation error and the entry
\* it held is not sent; a loop that has returned sends nothing more.
C22_Cancellation ==
    /\ (\A c \in Consumers :
          /\ (pc[c] = "top" /\ ctxDone[c]) => ENABLED SenderPop(c)
          /\ (pc[c] = "wait" /\ ctxDone[c]) => ENABLED SenderWait(c)
          /\ (pc[c] = "limit" /\ ctxDone[c]) => ENABLED SenderLimit(c)
          /\ result[c] = "cancelled" => ctxDone[c] /\ held[c] = NoHeld)
    /\ EveryStep(NextS,
       /\ \A c \in Consumers :
            /\ (pc[c] = "top" /\ ctxDone[c] /\ pc'[c] # pc[c]) =>
                  ReturnsCancelled(c) /\ dirty'[c] = dirty[c]
            /\ (Blocked(c) /\ ctxDone[c] /\ pc'[c] # pc[c]) =>
                  ReturnsCancelled(c) /\ dirty'[c] = dirty[c]
            /\ pc[c] = "done" => stream'[c] = stream[c])

\* a consumer with a rate limiter whose ticker never fired: the only entry
\* ever marked was drained, the context was cancelled while the loop was
\* blocked, the loop has returned the cancellation error, nothing was sent
\* and the entry is gone
C22_Witness ==
    /\ pc["c1"] = "done" /\ result["c1"] = "cancelled"
    /\ hasRateLimiter(cfg["c1"]) /\ cfg["c1"].filter = <<>>
    /\ nmark = 1 /\ cpc["t1"] = "idle"
    /\ dirty["c1"] = EmptyDirty
    /\ nticks["c1"] = 0
    /\ stream["c1"] = <<>>


\* the loop of consumer c has returned
Returned(c) == pc[c] = "done"

\* C23: the sender loop returns only when send returned an error or the
\* context was cancelled: a send that fails, on the flash or on the normal
\* path, ends the loop with that error and nothing is sent afterwards; an
\* empty dirty set, a filtered entry and a dropped flash entry lead to the
\* next iteration, and a loop that has not returned and is not cancelled
\* can always take its next step unless it waits for a signal or a tick.
C23_TerminatesOnlyOnErrorOrCancel ==
    /\ (\A c \in Consumers :
          /\ Returned(c) <=> result[c] \in {"senderr", "cancelled"}
          /\ (pc[c] = "top") => ENABLED SenderPop(c)
          /\ (pc[c] = "route") => ENABLED SenderRoute(c)
          /\ (pc[c] = "send") => ENABLED SenderSend(c)
          /\ (pc[c] = "get" /\ lock = "free") => ENABLED SenderGet(c)
          /\ (pc[c] = "wait" /\ signal[c] > 0) => ENABLED SenderWait(c)
          /\ (pc[c] = "limit" /\ limiterC[c] > 0) =>
                ENABLED SenderLimit(c))
    /\ EveryStep(NextS,
       /\ \A c \in Consumers :
            /\ (~Returned(c) /\ Returned(c)') =>
                  \/ /\ pc[c] = "send" /\ result'[c] = "senderr"
                     /\ broken'[c] /\ stream'[c] = stream[c]
                  \/ /\ pc[c] \in {"top", "wait", "limit"} /\ ctxDone[c]
                     /\ result'[c] = "cancelled" /\ stream'[c] = stream[c]
            /\ (pc[c] = "send" /\ pc'[c] # pc[c] /\ stream'[c] = stream[c]) =>
                  Returned(c)' /\ result'[c] = "senderr"
            /\ (pc[c] = "send" /\ pc'[c] # pc[c] /\ stream'[c] # stream[c]) =>
                  pc'[c] = "top" /\ result'[c] = ""
            /\ (pc[c] = "route" /\ pc'[c] # pc[c]) =>
                  pc'[c] \in {"top", "limit", "send"} /\ result'[c] = ""
            /\ (pc[c] = "top" /\ ~ctxDone[c] /\ pc'[c] # pc[c]) =>
                  pc'[c] = IF Pending(dirty[c]) = {} THEN "wait" ELSE "get"
            /\ Returned(c) => stream'[c] = stream[c] /\ Returned(c)'
                              /\ result'[c] = result[c])

\* after one event was sent, the send of a second entry failed: the loop
\* has returned the send error with the context still live; both marked
\* entries were drained
C23_Witness ==
    /\ Returned("c1") /\ result["c1"] = "senderr" /\ ~ctxDone["c1"]
    /\ Len(stream["c1"]) = 1
    /\ nmark = 2 /\ cpc["t1"] = "idle"
    /\ Pending(dirty["c1"]) = {}


\* the consumer was configured with a positive maxMessagesPerSecond
PositiveRate(cf) ==
    /\ cf.limiter # <<>>
    /\ cf.limiter[1].MaxMessagesPerSecond # <<>>
    /\ cf.limiter[1].MaxMessagesPerSecond[1] >= 1

\* the number of events consumer c sent on the normal (non-flash) path
NormalSends(c) ==
    Cardinality({i \in 1..Len(stream[c]) : stream[c][i].path = "normal"})

\* C24: a consumer whose maxMessagesPerSecond is absent or zero has no
\* limiter: its loop never waits for a token and no tick is ever stored.
\* With a positive rate at most one tick is stored at any time, a
\* non-flash entry reaches send only by taking one stored tick, and the
\* number of non-flash sends never exceeds the number of ticks taken, hence
\* the number of ticks that have fired.
C24_RateLimit ==
    /\ (\A c \in Consumers :
          /\ ~PositiveRate(cfg[c]) =>
                pc[c] # "limit" /\ limiterC[c] = 0 /\ nticks[c] = 0
          /\ limiterC[c] \in {0, 1}
          /\ PositiveRate(cfg[c]) =>
                /\ NormalSends(c) <= nticks[c] - limiterC[c]
                /\ (pc[c] = "send" /\ held[c].priority # PriorityFlash) =>
                      NormalSends(c) + 1 <= nticks[c] - limiterC[c])
    /\ EveryStep(NextS,
       /\ \A c \in Consumers :
            /\ (PositiveRate(cfg[c]) /\ pc[c] # "send" /\ pc'[c] = "send"
                /\ held'[c].priority # PriorityFlash) =>
                  pc[c] = "limit" /\ limiterC[c] = 1 /\ limiterC'[c] = 0
            /\ limiterC'[c] < limiterC[c] =>
                  pc[c] = "limit" /\ pc'[c] = "send"
            /\ (~PositiveRate(cfg[c]) /\ pc[c] = "route"
                /\ pc'[c] \notin {"route", "top"}) => pc'[c] = "send")

\* a consumer limited to one message per second has sent two routine
\* entries; its ticker has fired twice and no tick is stored
C24_Witness ==
    /\ PositiveRate(cfg["c1"])
    /\ NormalSends("c1") = 2
    /\ nticks["c1"] = 2 /\ limiterC["c1"] = 0


(***************************************************************************)
(* Latest-state delivery (checked under SpecL)                             *)
(***************************************************************************)
\* the positions in consumer c's stream of the events sent for an ID
SentFor(c, id) == {i \in 1..Len(stream[c]) : stream[c][i].id = id}

\* the last event consumer c sent for an ID carries the head's entry
LastReflectsHead(c, id) ==
    \A i \in SentFor(c, id) :
        (\A j \in SentFor(c, id) : j <= i) =>
            stream[c][i].ev.Entity = HeadEntry(id)

\* nothing is pending, held or on its way for consumer c
Quiet(c) ==
    /\ \A k \in Producers : cpc[k] = "idle"
    /\ Pending(dirty[c]) = {}
    /\ ~Holding(c)

\* what holds of consumer c once everything marked has been delivered: the
\* last event for each ID carries the head's entry, and an entity the test
\* has rewritten has been sent
Delivered(c) ==
    /\ \A id \in Ids : LastReflectsHead(c, id)
    /\ head["a"].label # <<"v0">> => SentFor(c, "a") # {}

\* C25: each event sent carries the head's entry for the ID as read after
\* the entry was drained; one drain removes the ID from the dirty set
\* however many times it was marked and leads to at most one send; a mark
\* accepted at any moment, also while the same ID is held by the loop,
\* leaves the ID pending; whenever nothing is pending, held or on its way,
\* the last event sent for each ID carries its final head state; and with
\* the loop running that situation is reached and lasts once the test stops
\* writing.
C25_LatestState ==
    /\ [][\A c \in Consumers :
            /\ (pc[c] = "get" /\ pc'[c] = "route") =>
                  held'[c].entity = HeadEntry(held[c].entityID)
            /\ (pc[c] = "top" /\ pc'[c] = "get") =>
                  /\ held'[c].entityID \in Pending(dirty[c])
                  /\ Pending(dirty'[c]) = Pending(dirty[c]) \ {held'[c].entityID}
            /\ stream'[c] # stream[c] =>
                  /\ pc[c] = "send" /\ pc'[c] = "top"
                  /\ Len(stream'[c]) = Len(stream[c]) + 1
                  /\ LET x == stream'[c][Len(stream'[c])] IN
                       /\ x.id = held[c].entityID
                       /\ x.ev.Entity = held[c].entity
            /\ \A id \in Ids :
                  lastMark'[c][id].n > lastMark[c][id].n =>
                      id \in Pending(dirty'[c])]_vars
    /\ [](Quiet("c1") => Delivered("c1"))
    /\ <>[](Quiet("c1") /\ Delivered("c1"))

\* the test wrote the entity twice and marked it each time before the loop
\* drained it; the loop has sent one event for it, carrying the second
\* state, and nothing is left to send
C25_Witness ==
    /\ head["a"].label = <<"v2">>
    /\ nmark = 0
    /\ Quiet("c1")
    /\ Len(stream["c1"]) = 1
    /\ stream["c1"][1].id = "a"
    /\ stream["c1"][1].ev.Entity = <<head["a"]>>


(***************************************************************************)
(* Properties of the filter matcher (checked under SpecF)                  *)
(***************************************************************************)
\* the IDs of a sequence of entities, in order
IdsOf(seq) == [i \in 1..Len(seq) |-> seq[i].id]

\* the IDs consumer c's stream carried after its sentinel, in order
StreamedIds(c) ==
    [i \in 1..(Len(stream[c]) - 1) |-> stream[c][i + 1].id]

\* the watch of consumer c has sent its whole snapshot
SnapshotDone(c) == pc[c] \in {"top", "wait"}

\* C26: with A (geo, label x), B (geo, label y) and C (no geo, label x) in
\* the head, a list request and a watch whose filter carries both
\* or: [{label: x}, {component: [geo]}] and not: {id: C} yield A and B only.
C26_S6YieldsAandB ==
    head = WorldS6 =>
        /\ (reply.op = "list" /\ reply.filter = <<FilterS6>>) =>
              IdsOf(reply.entities) = <<"a", "b">>
        /\ (SnapshotDone("c1") /\ cfg["c1"].filter = <<FilterS6>>) =>
              StreamedIds("c1") = <<"a", "b">>


\* the tags of the component table
TagTable == {2, 3, 4, 5, 11, 12, 15, 16, 17, 20, 21, 22, 23, 31}

\* the tags of the components an entity carries
TagsOn(e) ==
    e.present \cup (IF e.label # <<>> THEN {2} ELSE {})
              \cup (IF e.lifetime # <<>> THEN {4} ELSE {})
              \cup (IF e.priority # <<>> THEN {5} ELSE {})

\* every tag of the list is a tag of the table and is carried by the entity
HasAll(e, components) ==
    \A i \in 1..Len(components) :
        components[i] \in TagTable /\ components[i] \in TagsOn(e)

\* the filter populates nothing but its component list
ComponentOnly(filter) ==
    /\ filter # <<>>
    /\ filter[1].or = <<>> /\ filter[1].not = <<>>
    /\ filter[1].id = <<>> /\ filter[1].label = <<>>

\* the entities of the head carrying every listed component, in ID order
Carrying(components) ==
    SortedById({e \in {head[k] : k \in DOMAIN head} : HasAll(e, components)})

\* C27: under a filter that populates only its component list, a list
\* reply and a watch's snapshot hold exactly the entities of the head that
\* carry every listed tag's component under the tag table (an unknown tag
\* is carried by no entity), in ID order, the snapshot as updated events
\* after the sentinel; with A (geo), B (symbol only) and C (both) and
\* component = [geo] these are A and C.
C27_ComponentFilter ==
    /\ (reply.op = "list" /\ ComponentOnly(reply.filter)) =>
          reply.entities = Carrying(reply.filter[1].component)
    /\ (SnapshotDone("c1") /\ ComponentOnly(cfg["c1"].filter)) =>
          /\ Len(stream["c1"]) =
                Len(Carrying(cfg["c1"].filter[1].component)) + 1
          /\ stream["c1"][1].ev.T = EntityChangeInvalid
          /\ \A i \in 1..Len(Carrying(cfg["c1"].filter[1].component)) :
                /\ stream["c1"][i + 1].ev.T = EntityChangeUpdated
                /\ stream["c1"][i + 1].ev.Entity =
                      <<Carrying(cfg["c1"].filter[1].component)[i]>>
          /\ (head = WorldS5 /\ cfg["c1"].filter[1].component = <<11>>) =>
                StreamedIds("c1") = <<"a", "c">>

\* with A (geo), B (symbol only) and C (both) in the head, a watch with
\* component = [geo] has sent the sentinel, then A and C as updated
C27_Witness ==
    /\ head = WorldS5
    /\ cfg["c1"].filter = <<LeafFilter(<<>>, <<>>, <<11>>)>>
    /\ SnapshotDone("c1")
    /\ Len(stream["c1"]) = 3
    /\ stream["c1"][2].id = "a" /\ stream["c1"][2].ev.T = EntityChangeUpdated
    /\ stream["c1"][3].id = "c" /\ stream["c1"][3].ev.T = EntityChangeUpdated


\* the filter is absent, or populates neither or nor not
Plain(filter) ==
    filter = <<>> \/ (filter[1].or = <<>> /\ filter[1].not = <<>>)

\* what the populated scalar fields of a plain filter ask of an entity
PlainHolds(e, filter) ==
    filter # <<>> =>
        /\ filter[1].id # <<>> => e.id = filter[1].id[1]
        /\ filter[1].label # <<>> => e.label = filter[1].label
        /\ HasAll(e, filter[1].component)

\* the entities of the head a plain filter admits, in ID order
Admitted(filter) ==
    SortedById({e \in {head[k] : k \in DOMAIN head} : PlainHolds(e, filter)})

\* C28: an absent filter and a filter with no populated field admit every
\* entity of the head; a filter whose or list is empty and whose not is
\* absent admits exactly the entities its other populated fields (ID,
\* label, component list) admit, an empty component list asking nothing.
C28_FilterBoundaries ==
    /\ (reply.op = "list" /\ Plain(reply.filter)) =>
          /\ reply.entities = Admitted(reply.filter)
          /\ reply.filter \in {<<>>, <<LeafFilter(<<>>, <<>>, <<>>)>>} =>
                Len(reply.entities) = Cardinality(DOMAIN head)
          /\ (reply.filter # <<>> /\ reply.filter[1].component = <<>>
              /\ reply.filter[1].id = <<>>) =>
                \A k \in DOMAIN head :
                    (reply.filter[1].label # <<>> =>
                        head[k].label = reply.filter[1].label)
                    => \E i \in 1..Len(reply.entities) :
                          reply.entities[i] = head[k]
    /\ (SnapshotDone("c1") /\ Plain(cfg["c1"].filter)) =>
          /\ StreamedIds("c1") = IdsOf(Admitted(cfg["c1"].filter))
          /\ cfg["c1"].filter \in {<<>>, <<LeafFilter(<<>>, <<>>, <<>>)>>} =>
                Len(stream["c1"]) = Cardinality(DOMAIN head) + 1

\* with A (label x), B (label y) and C (label x) in the head: a list request
\* without a filter was answered with all three, and a watch whose filter
\* populates only the label x (empty or list, no not, empty component list)
\* has sent A and C
C28_Witness ==
    /\ head = WorldS6
    /\ reply.op = "list" /\ reply.filter = <<>>
    /\ IdsOf(reply.entities) = <<"a", "b", "c">>
    /\ cfg["c1"].filter = <<LeafFilter(<<>>, <<"x">>, <<>>)>>
    /\ SnapshotDone("c1")
    /\ StreamedIds("c1") = <<"a", "c">>


(***************************************************************************)
(* Properties of the connector controller (checked under SpecK)            *)
(***************************************************************************)
\* the connectors started for an ID that have not returned
Unfinished(id) ==
    {i \in DOMAIN conns : conns[i].id = id /\ conns[i].pc # "gone"}

\* among them, those whose context is live
LiveFor(id) == {i \in Unfinished(id) : ctxLive(i)}

\* the connector started last for an ID (0 when there is none)
CurrentFor(id) ==
    IF \E i \in DOMAIN conns : conns[i].id = id
    THEN CHOOSE i \in DOMAIN conns :
            /\ conns[i].id = id
            /\ \A j \in DOMAIN conns : conns[j].id = id => j <= i
    ELSE 0

\* C29: whenever no handleUpdate call is under way, at most one connector
\* with a live context is running for any entity ID, an entry of the
\* connectors map names the ID's current connector, which has not returned,
\* and a current connector that is running with a live context has its
\* entry in the map.
C29_OneConnectorPerEntity ==
    upd.pc = "idle" =>
        \A id \in Ids :
            /\ Cardinality(LiveFor(id)) <= 1
            /\ id \in DOMAIN connectors =>
                  /\ connectors[id] = CurrentFor(id)
                  /\ connectors[id] \in Unfinished(id)
            /\ CurrentFor(id) \in LiveFor(id) => id \in DOMAIN connectors

\* C30: an update that goes on to start a connector cancels the context of
\* every connector running for the same ID with a live context and leaves
\* the connectors of other IDs as they are; the connector it starts has a
\* context whose cancel function was not called.
C30_UpdateRestarts ==
    [][/\ (upd.pc = "idle" /\ upd'.pc = "store") =>
             \A i \in DOMAIN conns :
                 IF conns[i].id = upd'.entity[1].id
                 THEN i \in LiveFor(conns[i].id) => conns'[i].cancelled
                 ELSE conns'[i] = conns[i]
       /\ (upd.pc = "go" /\ upd'.pc = "idle") =>
             /\ conns'[upd.inst].pc = "check"
             /\ ~conns'[upd.inst].cancelled]_vars



(***************************************************************************)
(* Properties of Run1to1 and handleUpdate (checked under SpecR)            *)
(***************************************************************************)
\* a turn of the receive loop in which handleUpdate is called for the ID
\* with an entity whose until is not after now: an updated event carrying
\* such an until, or an unobserved or expired event
StopsFor(id) ==
    \E ev \in StreamEvents :
        /\ ev.entity # <<>>
        /\ ev.entity[1].id = id
        /\ ev.entity[1].lifetime # <<>>
        /\ \/ /\ ev.t = EntityChangeUpdated
              /\ ~(untilOf(ev.entity[1]) > now)
           \/ ev.t \in {EntityChangeUnobserved, EntityChangeExpired}
        /\ Recv(ev)

\* C31: a call of handleUpdate with an entity whose until is not after now
\* starts no connector, cancels every connector running for that ID with a
\* live context, and leaves no entry for the ID in the connectors map.
C31_ExpiredUpdateStops ==
    [][\A id \in Ids :
          StopsFor(id) =>
              /\ upd'.pc = "idle"
              /\ Len(conns') = Len(conns)
              /\ id \notin DOMAIN connectors'
              /\ \A i \in LiveFor(id) : conns'[i].cancelled]_vars


\* a turn of the receive loop in which handleUpdate is called for the ID:
\* the entity is updated or removed
HandledFor(id) ==
    \E ev \in StreamEvents :
        /\ ev.entity # <<>>
        /\ ev.entity[1].id = id
        /\ \/ ev.t = EntityChangeUpdated
           \/ /\ ev.t \in {EntityChangeUnobserved, EntityChangeExpired}
              /\ ev.entity[1].lifetime # <<>>
        /\ Recv(ev)

\* the connectors that start another turn of their loop in this step: the
\* test of the context at the top of the loop lets them go on to run
Restarted ==
    {i \in DOMAIN conns : conns[i].pc = "check" /\ conns'[i].pc = "call"}

\* C32: the context of a connector that has not returned is ended once its
\* deadline (the entity's until) is reached and once the parent context is
\* cancelled; a call of handleUpdate for its ID (update or removal) ends
\* it; and a connector whose context has ended starts no further turn of
\* its loop.
C32_ContextEnds ==
    /\ [](\A id \in Ids : \A i \in Unfinished(id) :
             /\ (conns[i].deadline # NoTs /\ now >= conns[i].deadline)
                    => ~ctxLive(i)
             /\ parentDone => ~ctxLive(i))
    /\ [][/\ \A id \in Ids :
                HandledFor(id) =>
                    \A i \in Unfinished(id) : conns'[i].cancelled
          /\ \A i \in Restarted : ctxLive(i)]_vars



(***************************************************************************)
(* Properties of runConnector (checked under SpecJ)                        *)
(***************************************************************************)
\* the position of connector i before and after the step
Moves(i, from, to) == conns[i].pc = from /\ conns'[i].pc = to

\* connector i waits in the back-off and the bound on invocations leaves
\* room for another one
InBackoff(i) ==
    IF i \in DOMAIN conns
    THEN conns[i].pc = "backoff" /\ conns[i].runs < MaxRuns
    ELSE FALSE

\* run is being invoked for connector i, or its context has ended
Resumed(i) ==
    IF i \in DOMAIN conns
    THEN conns[i].pc = "run" \/ ~ctxLive(i)
    ELSE FALSE

\* the restart part of runConnector's loop: when run returns while the
\* connector's context is live the connector enters the back-off and does
\* not return; it leaves the back-off for the top of the loop, or returns
\* if its context has ended; at the top of the loop it goes on to invoke
\* run if it finds the context live and returns otherwise
RestartSteps ==
    \A i \in DOMAIN conns :
        /\ (conns[i].pc = "run" /\ conns'[i].pc # "run" /\ ctxLive(i))
               => Moves(i, "run", "backoff")
        /\ Moves(i, "backoff", "exit") => ~ctxLive(i)
        /\ (conns[i].pc = "backoff" /\ conns'[i].pc # "backoff")
               => Moves(i, "backoff", "check") \/ Moves(i, "backoff", "exit")
        /\ (conns[i].pc = "check" /\ conns'[i].pc # "check")
               => IF ctxLive(i)
                  THEN Moves(i, "check", "call")
                  ELSE Moves(i, "check", "exit")
        /\ (conns[i].pc = "call" /\ conns'[i].pc # "call")
               => /\ Moves(i, "call", "run")
                  /\ conns'[i].runs = conns[i].runs + 1

\* C33 (as the code has it): the restart steps above; run is invoked only
\* by a connector that has passed the test of its context at the top of
\* the loop, a connector whose context has ended never passes that test
\* again, so that after the end of its context at most the one invocation
\* whose test came before the end begins, and an ended context stays
\* ended.  A connector in the back-off whose context stays live has run
\* invoked again (up to MaxRuns invocations).
C33_RestartUntilCancelled ==
    /\ [][/\ RestartSteps
          /\ \A i \in DOMAIN conns :
                /\ conns'[i].runs # conns[i].runs => Moves(i, "call", "run")
                /\ ~ctxLive(i) => ~Moves(i, "check", "call")
                /\ ~ctxLive(i) => ~ctxLive(i)']_vars
    /\ \A i \in 1..MaxUpdates : InBackoff(i) ~> Resumed(i)

\* C33 (as stated): the restart steps, and once the context of a
\* connector has ended run is never invoked for it again.
C33_NeverInvokedAfterCancel ==
    /\ [][/\ RestartSteps
          /\ \A i \in DOMAIN conns :
                conns'[i].runs # conns[i].runs => ctxLive(i)]_vars
    /\ \A i \in 1..MaxUpdates : InBackoff(i) ~> Resumed(i)

\* a connector whose run returned with a live context has been through the
\* back-off and has run invoked for the second time, its context still live
C33_Witness ==
    \E i \in DOMAIN conns :
        /\ conns[i].pc = "run"
        /\ conns[i].runs = 2
        /\ ctxLive(i)



(***************************************************************************)
(* The Observe stream (checked under SpecO)                                *)
(***************************************************************************)
\* the observer events the handler has received from its channel
ObserverEventsReceived ==
    {i \in (obs.from + 1)..obs.pos : obsLog[i].observer}

\* the events published since the observer was put on the bus that changed
\* the registry: "watch added" and "watch removed" of a stream whose
\* geometry decodes
RegistryChanges ==
    {i \in (obs.from + 1)..Len(obsLog) :
        obsLog[i].observer /\ HasGeometry(obsLog[i].by)}

\* the handler has received everything published so far and is waiting
Drained == obs.pc = "wait" /\ obs.pos = Len(obsLog)

Removes == {id \in DOMAIN head : id \notin DOMAIN head'}
Writes == {id \in DOMAIN head' : id \notin DOMAIN head \/ head'[id] # head[id]}

\* C35: an entry leaves the head only in a step of a gc sweep, and only if
\* its until is valid and strictly before the sweep's now; a step of a
\* sweep writes no entry, so that every entry without a valid until, or
\* with until at or after the sweep's now, is left as it is; when the sweep
\* ends no entry with a valid until strictly before its now is left; a
\* step of Push removes nothing and writes only the entry of the ID pushed.
C35_OnlyGcRemoves ==
    EveryStep(NextW,
       /\ \A id \in Removes : lock = Gc /\ UntilBefore(head[id], gcNow)
       /\ lock = Gc => Writes = {}
       /\ (lock = Gc /\ lock' = "free") =>
             \A id \in DOMAIN head : ~UntilBefore(head[id], gcNow)
       /\ \A p \in Pushers :
             (lock = p /\ head' # head) =>
                /\ Removes = {}
                /\ cur[p] # <<>>
                /\ Writes \subseteq {cur[p][1].id}
                /\ head'[cur[p][1].id] = cur[p][1]
       /\ lock = "free" => head' = head)

\* a sweep has removed "a", whose until was before the sweep's now, and
\* has left "b", whose until is not valid, in the head
C35_Witness ==
    /\ lock = Gc
    /\ gcNow = 2
    /\ "a" \notin DOMAIN head
    /\ published # <<>>
    /\ published[Len(published)].Entity[1].id = "a"
    /\ published[Len(published)].Entity[1].lifetime[1].until = 1
    /\ "b" \in DOMAIN head
    /\ "b" \in gcTodo
    /\ ~IsValid(head["b"].lifetime[1].until)



(***************************************************************************)
(* Wake-ups of the sender loop (checked under SpecL)                       *)
(***************************************************************************)
\* the loop of consumer c sits in the select on ctx.Done() and c.signal
Waiting(c) == pc[c] = "wait"

\* a markDirty call has left the critical section for consumer c and has
\* not yet executed its send on c.signal
AboutToSignal(c) == \E k \in Callers : cpc[k] = "dirty" /\ c \in call[k].sig

\* C36 (as the code has it): whenever the loop waits for the wake signal
\* and the dirty set is not empty, a token is in the channel or a markDirty
\* call that has made its entry is about to send one; and every ID placed
\* in the dirty set is eventually drained.
C36_NoLostWakeup ==
    /\ [](\A c \in Consumers :
            (Waiting(c) /\ Pending(dirty[c]) # {}) =>
                signal[c] > 0 \/ AboutToSignal(c))
    /\ \A id \in Ids :
          (id \in Pending(dirty["c1"])) ~> (id \notin Pending(dirty["c1"]))

\* C36 (as stated): whenever the loop waits for the wake signal and the
\* dirty set is not empty, a token is in the channel; and every ID placed
\* in the dirty set is eventually drained.
C36_TokenWheneverDirty ==
    /\ [](\A c \in Consumers :
            (Waiting(c) /\ Pending(dirty[c]) # {}) => signal[c] > 0)
    /\ \A id \in Ids :
          (id \in Pending(dirty["c1"])) ~> (id \notin Pending(dirty["c1"]))

\* the loop waits, an entry is pending, the markDirty call that made it has
\* returned and its token is in the channel
C36_Witness ==
    /\ Waiting("c1")
    /\ Pending(dirty["c1"]) # {}
    /\ signal["c1"] = 1
    /\ ~AboutToSignal("c1")
    /\ \A k \in Producers : cpc[k] = "idle"


(***************************************************************************)
(* The snapshot/live boundary of a watch stream (checked under Spec)       *)
(***************************************************************************)
\* the stream has sent its snapshot, its loop waits, and nothing is pending,
\* held or in a Push, a sweep or a Bus.Dirty call
Settled(c) ==
    /\ pc[c] = "wait"
    /\ lock = "free"
    /\ \A k \in Callers : cpc[k] = "idle"
    /\ Pending(dirty[c]) = {}

\* the head's entry for the ID is one the stream's filter lets through
Wanted(c, id) ==
    id \in DOMAIN head /\ matchesListEntitiesRequest(head[id], cfg[c].filter)

\* a change of the ID was accepted after the stream read its snapshot
PushedSince(c, id) ==
    \E i \in (openedAt[c] + 1)..Len(store) : store[i].Entity.id = id

\* the kind of the last event the stream sent for the ID is expired
LastIsExpired(c, id) ==
    \A i \in SentFor(c, id) :
        (\A j \in SentFor(c, id) : j <= i) =>
            stream[c][i].ev.T = EntityChangeExpired

FlashRouted(c) ==
    pc[c] = "route" /\ pc'[c] # "route" /\ held[c].priority = PriorityFlash

\* C38: on the flash path the pending kind is sent unchanged and nothing
\* else is done: a flash entry whose entity is missing from the head and
\* whose pending kind is not expired is dropped without a send; one whose
\* pending kind is expired is sent, even with a nil entity; one whose head
\* entity has expired is still sent with its pending kind; the event is
\* the entity read and the kind drained, and no rate-limit token is taken.
C38_FlashPath ==
    EveryStep(NextS,
       \A c \in Consumers :
         /\ (pc[c] = "top" /\ pc'[c] = "get"
             /\ held'[c].priority = PriorityFlash) =>
               held'[c].change =
                   dirty[c][PriorityFlash][held'[c].entityID]
         /\ (pc[c] = "get" /\ pc'[c] = "route"
             /\ held[c].priority = PriorityFlash) =>
               held'[c].change = held[c].change
         /\ (FlashRouted(c) /\ held[c].entity = <<>>
             /\ held[c].change # EntityChangeExpired) =>
               /\ pc'[c] = "top"
               /\ held'[c] = NoHeld
               /\ stream'[c] = stream[c]
         /\ (FlashRouted(c) /\ held[c].change = EntityChangeExpired) =>
               /\ pc'[c] = "send"
               /\ held'[c] = held[c]
         /\ (FlashRouted(c) /\ held[c].entity # <<>>) =>
               /\ pc'[c] = "send"
               /\ held'[c] = held[c]
         /\ (pc[c] = "send" /\ held[c].priority = PriorityFlash
             /\ stream'[c] # stream[c]) =>
               /\ stream'[c] = Append(stream[c],
                     Sent(ChangeEvent(held[c].entity, held[c].change),
                          "flash", held[c].entityID, PriorityFlash))
               /\ limiterC'[c] = limiterC[c]
         /\ (pc[c] \in {"route", "send"}
             /\ held[c].priority = PriorityFlash) =>
               limiterC'[c] >= limiterC[c])

\* two flash events were sent: "b", missing from the head, as expired with a
\* nil entity, and "a", whose until had passed, as updated with its entity
C38_Witness ==
    /\ Len(stream["c1"]) = 2
    /\ \A i \in 1..2 : stream["c1"][i].path = "flash"
    /\ \E i, j \in 1..2 :
         /\ stream["c1"][i].id = "b"
         /\ stream["c1"][i].ev = ChangeEvent(<<>>, EntityChangeExpired)
         /\ stream["c1"][j].id = "a"
         /\ stream["c1"][j].ev.T = EntityChangeUpdated
         /\ stream["c1"][j].ev.Entity = <<head["a"]>>
         /\ UntilBefore(head["a"], now)


(***************************************************************************)
(* The filter test of the sender loop (checked under SpecS)                *)
(***************************************************************************)
\* the entry the loop holds is not flash and its head entity fails the
\* consumer's filter
HeldFiltered(c) ==
    /\ held[c].priority # PriorityFlash
    /\ held[c].entity # <<>>
    /\ cfg[c].filter # <<>>
    /\ ~PassesFilter(c, held[c].entity[1])

\* C39: a non-flash entry whose head entity does not match the consumer's
\* filter is dropped at the filter test, which precedes the limiter wait: it
\* never waits for or takes a rate-limit token and is never sent, so that
\* every event sent below flash priority with an entity passes the filter.
C39_FilterBeforeLimiter ==
    /\ (\A c \in Consumers :
          pc[c] \in {"limit", "send"} => ~HeldFiltered(c))
    /\ (\A c \in Consumers : \A i \in 1..Len(stream[c]) :
          (stream[c][i].path = "normal" /\ stream[c][i].ev.Entity # <<>>) =>
              PassesFilter(c, stream[c][i].ev.Entity[1]))
    /\ EveryStep(NextS,
       /\ \A c \in Consumers :
            /\ (pc[c] = "route" /\ pc'[c] # "route" /\ HeldFiltered(c)) =>
                  /\ pc'[c] = "top"
                  /\ held'[c] = NoHeld
                  /\ stream'[c] = stream[c]
                  /\ limiterC'[c] = limiterC[c]
            /\ limiterC'[c] < limiterC[c] =>
                  /\ pc[c] = "limit" /\ pc'[c] = "send"
                  /\ ~HeldFiltered(c))

\* a rate-limited consumer whose filter does not let "a" through has drained
\* a routine entry for "a" and is at the filter test, the limiter's only token is
\* still in its channel, and nothing has been sent
C39_Witness ==
    /\ pc["c1"] = "route"
    /\ HeldFiltered("c1")
    /\ held["c1"].entityID = "a"
    /\ hasRateLimiter(cfg["c1"])
    /\ nticks["c1"] = 1 /\ limiterC["c1"] = 1
    /\ stream["c1"] = <<>>
    /\ "b" \in DOMAIN dirty["c1"][PriorityRoutine]


=============================================================================
